---- MODULE Spec2Model ----
(***************************************************************************)
(* FinSolve role-gated question answering: the access decision engine      *)
(* RAGChain.retrieve_and_generate (src/core/rag_chain.py), the permission  *)
(* table (src/core/rbac.py), the retrieval gateway                         *)
(* ChromaVectorStore (src/core/vector_store.py), the two providers         *)
(* (src/core/embedding.py, src/core/llm.py) and the ingestion script       *)
(* (src/data_ingestion/ingest.py) that rewrites the shared collection.     *)
(*                                                                         *)
(* Python strings that the code inspects character by character (the       *)
(* query, the keywords, the department names it capitalises) are           *)
(* sequences of one-character strings.  Python's None is the empty         *)
(* sequence and a present value x is <<x>>.                                *)
(***************************************************************************)
EXTENDS Integers, Sequences, FiniteSets, TLC

None == <<>>

Some(x) == <<x>>

\* ------------------------------------------------------------------------
\* Bounds of the model
\* ------------------------------------------------------------------------

\* largest number of passages the collection holds
MaxDocs == 2

\* ------------------------------------------------------------------------
\* str.lower(), str.capitalize() and the substring test `kw in text`
\* ------------------------------------------------------------------------

UpperLetters ==
  <<"A","B","C","D","E","F","G","H","I","J","K","L","M",
    "N","O","P","Q","R","S","T","U","V","W","X","Y","Z">>

LowerLetters ==
  <<"a","b","c","d","e","f","g","h","i","j","k","l","m",
    "n","o","p","q","r","s","t","u","v","w","x","y","z">>

LowerChar(c) ==
  IF \E i \in 1..26 : UpperLetters[i] = c
    THEN LowerLetters[CHOOSE i \in 1..26 : UpperLetters[i] = c]
    ELSE c

UpperChar(c) ==
  IF \E i \in 1..26 : LowerLetters[i] = c
    THEN UpperLetters[CHOOSE i \in 1..26 : LowerLetters[i] = c]
    ELSE c

Lower(s) == [i \in 1..Len(s) |-> LowerChar(s[i])]

\* str.upper() in the place of str.capitalize()
Capitalize_Upper(s) == [i \in 1..Len(s) |-> UpperChar(s[i])]

Capitalize(s) ==
  [i \in 1..Len(s) |-> IF i = 1 THEN UpperChar(s[i]) ELSE LowerChar(s[i])]

\* Python's `kw in text` for two strings
IsSubstring(kw, text) ==
  \E i \in 0..(Len(text) - Len(kw)) :
     \A j \in 1..Len(kw) : text[i + j] = kw[j]

\* ------------------------------------------------------------------------
\* src/core/rbac.py
\* ------------------------------------------------------------------------

ALL_DEPARTMENTS == <<"finance", "marketing", "hr", "engineering", "general">>

\* the characters of each department name that occurs as passage metadata
DeptChars ==
  [finance     |-> <<"f","i","n","a","n","c","e">>,
   marketing   |-> <<"m","a","r","k","e","t","i","n","g">>,
   hr          |-> <<"h","r">>,
   engineering |-> <<"e","n","g","i","n","e","e","r","i","n","g">>,
   general     |-> <<"g","e","n","e","r","a","l">>,
   legal       |-> <<"l","e","g","a","l">>]

OrRule == "$or" :> [i \in 1..Len(ALL_DEPARTMENTS) |-> [department |-> ALL_DEPARTMENTS[i]]]

KnownRoles ==
  {"Finance Team", "Marketing Team", "HR Team", "Engineering Department",
   "C-Level Executives", "Employee Level", "Admin"}

ROLE_PERMISSIONS ==
  [r \in KnownRoles |->
     CASE r = "Finance Team"           -> [department |-> "finance"]
       [] r = "Marketing Team"         -> [department |-> "marketing"]
       [] r = "HR Team"                -> [department |-> "hr"]
       [] r = "Engineering Department" -> [department |-> "engineering"]
       [] r = "C-Level Executives"     -> OrRule
       [] r = "Employee Level"         -> [department |-> "general"]
       [] r = "Admin"                  -> OrRule]

\* the empty dict {}
EmptyDict == <<>>

\* every role gets the empty filter
get_chroma_filter_for_role_NoFilter(role) == EmptyDict

get_chroma_filter_for_role(role) ==
  IF role \in DOMAIN ROLE_PERMISSIONS /\ DOMAIN ROLE_PERMISSIONS[role] # {}
    THEN IF "department" \in DOMAIN ROLE_PERMISSIONS[role]
              \/ "$or" \in DOMAIN ROLE_PERMISSIONS[role]
           THEN ROLE_PERMISSIONS[role]
           ELSE EmptyDict
    ELSE EmptyDict

\* ------------------------------------------------------------------------
\* src/core/rag_chain.py: department inference
\* ------------------------------------------------------------------------

DEPARTMENT_KEYWORDS ==
  <<
    [dept |-> "finance", keywords |-> <<
       <<"r","e","v","e","n","u","e">>,  \* revenue
       <<"e","x","p","e","n","s","e">>,  \* expense
       <<"b","u","d","g","e","t">>,  \* budget
       <<"f","i","n","a","n","c","i","a","l">>,  \* financial
       <<"i","n","c","o","m","e">>,  \* income
       <<"p","r","o","f","i","t">>,  \* profit
       <<"a","u","d","i","t">>,  \* audit
       <<"c","a","s","h"," ","f","l","o","w">>,  \* cash flow
       <<"b","a","l","a","n","c","e"," ","s","h","e","e","t">>,  \* balance sheet
       <<"t","a","x">>,  \* tax
       <<"q","u","a","r","t","e","r","l","y"," ","r","e","p","o","r","t">>,  \* quarterly report
       <<"e","a","r","n","i","n","g","s">>   \* earnings
    >>],
    [dept |-> "marketing", keywords |-> <<
       <<"c","a","m","p","a","i","g","n">>,  \* campaign
       <<"a","c","q","u","i","s","i","t","i","o","n">>,  \* acquisition
       <<"c","u","s","t","o","m","e","r">>,  \* customer
       <<"b","r","a","n","d">>,  \* brand
       <<"m","a","r","k","e","t">>,  \* market
       <<"a","d","v","e","r","t","i","s","i","n","g">>,  \* advertising
       <<"s","a","l","e","s"," ","p","i","p","e","l","i","n","e">>,  \* sales pipeline
       <<"l","e","a","d"," ","g","e","n","e","r","a","t","i","o","n">>,  \* lead generation
       <<"p","r","o","m","o","t","i","o","n","a","l">>,  \* promotional
       <<"d","i","g","i","t","a","l"," ","m","a","r","k","e","t","i","n","g">>,  \* digital marketing
       <<"m","e","d","i","a"," ","s","p","e","n","d">>,  \* media spend
       <<"t","a","r","g","e","t"," ","a","u","d","i","e","n","c","e">>,  \* target audience
       <<"s","o","c","i","a","l"," ","m","e","d","i","a">>   \* social media
    >>],
    [dept |-> "hr", keywords |-> <<
       <<"e","m","p","l","o","y","e","e">>,  \* employee
       <<"h","r">>,  \* hr
       <<"h","u","m","a","n"," ","r","e","s","o","u","r","c","e","s">>,  \* human resources
       <<"p","o","l","i","c","y">>,  \* policy
       <<"o","n","b","o","a","r","d","i","n","g">>,  \* onboarding
       <<"l","e","a","v","e">>,  \* leave
       <<"b","e","n","e","f","i","t","s">>,  \* benefits
       <<"r","e","c","r","u","i","t","m","e","n","t">>,  \* recruitment
       <<"t","r","a","i","n","i","n","g">>,  \* training
       <<"p","a","y","r","o","l","l">>,  \* payroll
       <<"w","o","r","k","f","o","r","c","e">>   \* workforce
    >>],
    [dept |-> "engineering", keywords |-> <<
       <<"a","r","c","h","i","t","e","c","t","u","r","e">>,  \* architecture
       <<"m","i","c","r","o","s","e","r","v","i","c","e","s">>,  \* microservices
       <<"d","e","v","e","l","o","p","m","e","n","t">>,  \* development
       <<"t","e","c","h"," ","s","t","a","c","k">>,  \* tech stack
       <<"d","e","p","l","o","y","m","e","n","t">>,  \* deployment
       <<"s","o","f","t","w","a","r","e">>,  \* software
       <<"p","r","o","d","u","c","t"," ","r","o","a","d","m","a","p">>,  \* product roadmap
       <<"s","y","s","t","e","m"," ","d","e","s","i","g","n">>,  \* system design
       <<"c","o","d","e">>,  \* code
       <<"i","n","f","r","a","s","t","r","u","c","t","u","r","e">>,  \* infrastructure
       <<"b","a","c","k","e","n","d">>,  \* backend
       <<"f","r","o","n","t","e","n","d">>   \* frontend
    >>]
  >>

MIN_KEYWORD_MATCHES == 1

\* sum(1 for keyword in keywords if keyword in query_lower)
Score(keywords, query_lower) ==
  Cardinality({k \in 1..Len(keywords) : IsSubstring(keywords[k], query_lower)})

\* department_scores, as the sequence of the table positions that were
\* inserted (a dict keeps insertion order, which is the table's order)
DepartmentScores(query) ==
  [i \in 1..Len(DEPARTMENT_KEYWORDS) |->
     Score(DEPARTMENT_KEYWORDS[i].keywords, Lower(query))]

\* the threshold test of line 54 is missing: every department is a candidate
_infer_query_department_NoThreshold(query) ==
  LET scores == DepartmentScores(query)
      best   == CHOOSE i \in DOMAIN scores :
                   /\ \A j \in DOMAIN scores : scores[j] <= scores[i]
                   /\ \A j \in DOMAIN scores : j < i => scores[j] < scores[i]
  IN  Some(DEPARTMENT_KEYWORDS[best].dept)

\* the first candidate is returned, whatever its score
_infer_query_department_FirstCandidate(query) ==
  LET scores == DepartmentScores(query)
      cands  == {i \in DOMAIN scores : scores[i] >= MIN_KEYWORD_MATCHES}
  IN  IF cands = {}
        THEN None
        ELSE Some(DEPARTMENT_KEYWORDS[CHOOSE i \in cands : \A j \in cands : i <= j].dept)

\* max(department_scores, key=department_scores.get): the first key, in
\* insertion order, whose score no other key exceeds
_infer_query_department(query) ==
  LET scores == DepartmentScores(query)
      cands  == {i \in DOMAIN scores : scores[i] >= MIN_KEYWORD_MATCHES}
  IN  IF cands = {}
        THEN None
        ELSE LET best == CHOOSE i \in cands :
                            /\ \A j \in cands : scores[j] <= scores[i]
                            /\ \A j \in cands : j < i => scores[j] < scores[i]
             IN  Some(DEPARTMENT_KEYWORDS[best].dept)

\* ------------------------------------------------------------------------
\* Inputs
\* ------------------------------------------------------------------------

\* ""
QEmpty == <<>>
\* "capital of Mars"
QMars == <<"c","a","p","i","t","a","l"," ","o","f"," ","M","a","r","s">>
\* "customer acquisition"
QCustomer == <<"c","u","s","t","o","m","e","r"," ","a","c","q","u","i","s","i","t","i","o","n">>
\* "Revenue"
QRevenue == <<"R","e","v","e","n","u","e">>
\* "microservices"
QMicro == <<"m","i","c","r","o","s","e","r","v","i","c","e","s">>
\* "three"
QThree == <<"t","h","r","e","e">>
\* "budget campaign"
QTie == <<"b","u","d","g","e","t"," ","c","a","m","p","a","i","g","n">>
\* "brand campaign tax"
QBrand == <<"b","r","a","n","d"," ","c","a","m","p","a","i","g","n"," ","t","a","x">>

Queries == {QEmpty, QMars, QCustomer, QRevenue, QMicro, QThree, QTie, QBrand}

\* a role that is not a key of ROLE_PERMISSIONS
UnknownRole == "Intern"

Roles == KnownRoles \cup {UnknownRole}

\* _infer_query_department over the modelled queries
InferredDepartment == [q \in Queries |-> _infer_query_department(q)]

\* ------------------------------------------------------------------------
\* Passages as src/data_ingestion/ingest.py writes them: the department is
\* the lower-cased first folder under data/, whatever its name ("legal" is
\* a folder that rbac.py does not list)
\* ------------------------------------------------------------------------

PassageDepartments == {"finance", "marketing", "engineering", "general", "legal"}

SourceFiles == {"report.md"}

ChunkIndexes == {0}

Metadatas ==
  [department : PassageDepartments, source_file : SourceFiles, chunk_index : ChunkIndexes]

\* the text of a chunk, identified by where it was cut from
ChunkText(m) == <<m.department, m.source_file, m.chunk_index>>

Passages == {[document |-> ChunkText(m), metadata |-> m] : m \in Metadatas}

BoundedSeq(S, n) == UNION {[1..k -> S] : k \in 0..n}

\* ------------------------------------------------------------------------
\* Python dict helpers
\* ------------------------------------------------------------------------

HasKey(d, k) == d # EmptyDict /\ k \in DOMAIN d

\* d.get(k, default)
Get(d, k, default) == IF HasKey(d, k) THEN d[k] ELSE default

Take(s, n) == IF Len(s) <= n THEN s ELSE SubSeq(s, 1, n)

\* ------------------------------------------------------------------------
\* src/core/vector_store.py
\* ------------------------------------------------------------------------

\* the index's metadata filter: None and {} filter nothing (rbac.py:46-49)
Matches(where_clause, meta) ==
  IF where_clause = None \/ where_clause = Some(EmptyDict)
    THEN TRUE
    ELSE LET w == where_clause[1]
         IN  IF HasKey(w, "department")
               THEN HasKey(meta, "department") /\ meta.department = w.department
               ELSE \E i \in 1..Len(w["$or"]) :
                       HasKey(meta, "department")
                         /\ meta.department = w["$or"][i].department

\* the collection is None or collection.query raises
QueryFails(coll, raises) == coll = None \/ raises

\* what query_documents returns when it cannot query
EmptyResult == [documents |-> <<>>, metadatas |-> <<>>, ids |-> <<>>]

\* the except branch answers with an unfiltered query
query_documents_FailOpen(coll, n_results, where_clause, raises) ==
  IF coll = None
    THEN EmptyResult
    ELSE LET hits == Take(SelectSeq(coll[1],
                                    LAMBDA p : raises \/ Matches(where_clause, p.metadata)),
                          n_results)
         IN  [documents |-> << [i \in 1..Len(hits) |-> hits[i].document] >>,
              metadatas |-> << [i \in 1..Len(hits) |-> hits[i].metadata] >>,
              ids       |-> << [i \in 1..Len(hits) |-> i] >>]

\* the except branch returns the nearest passage, fetched before the error
query_documents_PartialOnError(coll, n_results, where_clause, raises) ==
  IF coll = None
    THEN EmptyResult
    ELSE LET hits == IF raises
                       THEN Take(coll[1], 1)
                       ELSE Take(SelectSeq(coll[1],
                                           LAMBDA p : Matches(where_clause, p.metadata)),
                                 n_results)
         IN  [documents |-> << [i \in 1..Len(hits) |-> hits[i].document] >>,
              metadatas |-> << [i \in 1..Len(hits) |-> hits[i].metadata] >>,
              ids       |-> << [i \in 1..Len(hits) |-> i] >>]

\* collection: None when Chroma failed to initialise, else Some(passages in
\* the order of their distance to the query); raises: the index raised
query_documents(coll, n_results, where_clause, raises) ==
  IF coll = None
    THEN EmptyResult
    ELSE IF raises
      THEN EmptyResult
      ELSE LET hits == Take(SelectSeq(coll[1], LAMBDA p : Matches(where_clause, p.metadata)),
                            n_results)
           IN  [documents |-> << [i \in 1..Len(hits) |-> hits[i].document] >>,
                metadatas |-> << [i \in 1..Len(hits) |-> hits[i].metadata] >>,
                ids       |-> << [i \in 1..Len(hits) |-> i] >>]

\* ------------------------------------------------------------------------
\* src/core/embedding.py, src/core/llm.py
\* ------------------------------------------------------------------------

Embedding == <<1, 2>>

\* provider_ok: the Ollama call returned
get_ollama_embedding(text, provider_ok) ==
  IF text = <<>> THEN None
  ELSE IF provider_ok THEN Some(Embedding) ELSE None

\* what the Gemini call can give back: an error or a malformed body (None),
\* an empty text, a text
LlmReplies == {None, Some(""), Some("generated answer")}

generate_llm_response(prompt, reply) ==
  IF prompt = None THEN None ELSE reply

\* ------------------------------------------------------------------------
\* src/core/rag_chain.py: retrieve_and_generate
\* ------------------------------------------------------------------------

MsgProvideQuery   == "Please provide a query."
MsgDenied         == "Sorry, based on your role, you do not have permission to access information related to the department."
MsgEmbeddingError == "Sorry, I couldn't process your query. Failed to generate embedding."
MsgNoInformation  == "I couldn't find any relevant information for your query in our knowledge base."
MsgNoneInScope    == "I couldn't find any specific information for your query within your allowed access."
MsgLlmError       == "Sorry, I encountered an issue generating a response."

\* a fixed message
Fixed(msg) == [text |-> msg, user_role |-> "", denied_dept_str |-> {}]

\* the denial message: its role and the department names joined by " or "
Denied(role, names) == [text |-> MsgDenied, user_role |-> role, denied_dept_str |-> names]

\* the bypass list names Admin only
PrivilegedRoles_AdminOnly == {"Admin"}

PrivilegedRoles == {"Admin", "C-Level Executives"}

\* the empty query is let through
Falsy_Never(s) == FALSE

\* line 90: `not user_query`
Falsy(s) == s = <<>>

\* lines 99-108
PermittedDepartments(role) ==
  LET role_filter_definition == Get(ROLE_PERMISSIONS, role, EmptyDict)
  IN  IF HasKey(role_filter_definition, "department")
        THEN {role_filter_definition.department}
        ELSE IF HasKey(role_filter_definition, "$or")
          THEN {role_filter_definition["$or"][i].department :
                   i \in 1..Len(role_filter_definition["$or"])}
          ELSE {}

\* the membership test the wrong way round
ProactivelyDenied_Inverted(inferred, permitted, role) ==
  /\ inferred # None
  /\ inferred[1] \in permitted
  /\ role \notin PrivilegedRoles

\* lines 115-117
ProactivelyDenied(inferred, permitted, role) ==
  /\ inferred # None
  /\ inferred[1] \notin permitted
  /\ role \notin PrivilegedRoles

\* without the privileged-role bypass
DeniedDepartments_NoPrivilegeCheck(metadatas, permitted, role) ==
  {Capitalize(DeptChars[metadatas[i].department]) :
     i \in {j \in 1..Len(metadatas) :
              /\ HasKey(metadatas[j], "department")
              /\ metadatas[j].department # ""
              /\ metadatas[j].department \notin permitted}}

\* without the test against the permitted departments
DeniedDepartments_NoPermittedCheck(metadatas, permitted, role) ==
  {Capitalize(DeptChars[metadatas[i].department]) :
     i \in {j \in 1..Len(metadatas) :
              /\ HasKey(metadatas[j], "department")
              /\ metadatas[j].department # ""
              /\ role \notin PrivilegedRoles}}

\* lines 156-160
DeniedDepartments(metadatas, permitted, role) ==
  {Capitalize(DeptChars[metadatas[i].department]) :
     i \in {j \in 1..Len(metadatas) :
              /\ HasKey(metadatas[j], "department")
              /\ metadatas[j].department # ""
              /\ metadatas[j].department \notin permitted
              /\ role \notin PrivilegedRoles}}

\* the global result is looked at before the scoped one
Decide_GlobalFirst(retrieved_chunks_texts, all_relevant_chunks_texts, denied_departments) ==
  IF all_relevant_chunks_texts = <<>>
    THEN "NOT_FOUND"
    ELSE IF retrieved_chunks_texts # <<>>
      THEN "PROCEED"
      ELSE IF denied_departments # {} THEN "DENY" ELSE "NOT_IN_SCOPE"

\* the global result's emptiness is not looked at
Decide_NoGlobalCheck(retrieved_chunks_texts, all_relevant_chunks_texts, denied_departments) ==
  IF retrieved_chunks_texts = <<>>
    THEN IF denied_departments # {} THEN "DENY" ELSE "NOT_IN_SCOPE"
    ELSE "PROCEED"

\* the fallback without the ambiguous-boundary branch of lines 166-168
Decide_NoAmbiguousBranch(retrieved_chunks_texts, all_relevant_chunks_texts, denied_departments) ==
  IF retrieved_chunks_texts = <<>>
    THEN IF all_relevant_chunks_texts = <<>> \/ denied_departments = {}
           THEN "NOT_FOUND"
           ELSE "DENY"
    ELSE "PROCEED"

\* lines 150-171: the branch taken once both results are unpacked
Decide(retrieved_chunks_texts, all_relevant_chunks_texts, denied_departments) ==
  IF retrieved_chunks_texts = <<>>
    THEN IF all_relevant_chunks_texts = <<>>
           THEN "NOT_FOUND"
           ELSE IF denied_departments # {}
             THEN "DENY"
             ELSE "NOT_IN_SCOPE"
    ELSE "PROCEED"

\* lines 181-185
SourceInfo(metadata) ==
  [source_file |-> Get(metadata, "source_file", "Unknown File"),
   department  |-> Get(metadata, "department", "Unknown Department"),
   chunk_index |-> Get(metadata, "chunk_index", -1)]

InSeq(x, s) == \E i \in 1..Len(s) : s[i] = x

\* the source list without the membership test of line 186
SourceDocuments_NoDedup(metadatas, n) == [i \in 1..n |-> SourceInfo(metadatas[i])]

\* lines 175-187: source_documents after the loop over the first n chunks
RECURSIVE SourceDocuments(_, _)
SourceDocuments(metadatas, n) ==
  IF n = 0
    THEN <<>>
    ELSE LET before == SourceDocuments(metadatas, n - 1)
             info   == SourceInfo(metadatas[n])
         IN  IF InSeq(info, before) THEN before ELSE Append(before, info)

\* `is not None` in the place of the truth test: an empty text is an answer
LlmResult_EmptyTextAccepted(text, sources) ==
  IF text # None
    THEN <<Fixed(text[1]), sources>>
    ELSE <<Fixed(MsgLlmError), <<>>>>

\* the collected sources are returned with the failure message
LlmResult_KeepsSources(text, sources) ==
  IF text # None /\ text[1] # ""
    THEN <<Fixed(text[1]), sources>>
    ELSE <<Fixed(MsgLlmError), sources>>

\* lines 217-221: the pair returned once the language model has answered
LlmResult(text, sources) ==
  IF text # None /\ text[1] # ""
    THEN <<Fixed(text[1]), sources>>
    ELSE <<Fixed(MsgLlmError), <<>>>>

\* lines 174-178
ContextStrings(texts) ==
  [i \in 1..Len(texts) |-> [chunk |-> i, chunk_text |-> texts[i]]]

\* ------------------------------------------------------------------------
\* State
\* ------------------------------------------------------------------------

\* ------------------------------------------------------------------------
\* the logger calls of retrieve_and_generate (info level and above)
\* ------------------------------------------------------------------------

\* one entry: its level, the line that emits it, and what its text carries:
\* the role, the departments, and the result set whose size it tells
LogEntry(level, line, role, departments, result, size) ==
  [level |-> level, line |-> line, user_role |-> role,
   departments |-> departments, result |-> result, size |-> size]

\* lines 91, 96, 120
RequestLog(query, role) ==
  IF Falsy(query)
    THEN {LogEntry("warning", 91, "", {}, "", 0)}
    ELSE {LogEntry("info", 96, role, {}, "", 0)} \cup
         (IF ProactivelyDenied(InferredDepartment[query], PermittedDepartments(role), role)
            THEN {LogEntry("warning", 120, role,
                           {DeptChars[InferredDepartment[query][1]]}, "", 0)}
            ELSE {})

\* line 126
EmbeddingLog(embedding) ==
  IF embedding = None THEN {LogEntry("error", 126, "", {}, "", 0)} ELSE {}

\* lines 151, 153, 164, 167, 171: nothing tells the size of a non-empty
\* global result; an exception of the unpacking logs nothing
DecisionLog(decision, role, denied_departments, retrieved_chunks_texts) ==
  CASE decision = "PROCEED" ->
         {LogEntry("info", 171, "", {}, "scoped", Len(retrieved_chunks_texts))}
    [] decision = "NOT_FOUND" ->
         {LogEntry("info", 151, role, {}, "scoped", 0),
          LogEntry("info", 153, "", {}, "global", 0)}
    [] decision = "DENY" ->
         {LogEntry("info", 151, role, {}, "scoped", 0),
          LogEntry("warning", 164, role, denied_departments, "", 0)}
    [] decision = "NOT_IN_SCOPE" ->
         {LogEntry("info", 151, role, {}, "scoped", 0),
          LogEntry("warning", 167, role, {}, "", 0)}
    [] OTHER -> {}

\* line 220
LlmLog(text) ==
  IF text = None \/ text = Some("") THEN {LogEntry("error", 220, "", {}, "", 0)} ELSE {}

VARIABLES
  collection,                     \* ChromaVectorStore.collection
  ingest_pc,                      \* where ingest_data_into_chromadb stands
  pc,                             \* where retrieve_and_generate stands
  user_query,
  user_role,
  rbac_filter,
  user_permitted_departments,
  inferred_query_department,
  query_embedding,
  all_relevant_results,
  retrieval_results_with_filter,
  context_strings,
  source_documents,
  returned,                       \* Some(<<response, sources>>) once returned
  raised,                         \* the exception that left the coroutine
  embedding_calls,                \* calls of get_ollama_embedding so far
  query_calls,                    \* calls of query_documents so far
  llm_calls,                      \* calls of generate_llm_response so far
  response_text,                  \* what generate_llm_response gave back
  index_failures,                 \* query_documents calls that could not query
  log,                            \* what the request gave to logger so far
  stub,                           \* the fixed responses of stubbed providers
  reference,                      \* a completed request the caller remembers
  running,                        \* the coroutine the event loop is running
  suspended,                      \* the frames of the coroutines at an await
  role_permissions,               \* the module-level dict ROLE_PERMISSIONS
  department_keywords,            \* the module-level dict DEPARTMENT_KEYWORDS
  users,                          \* table users: id -> row
  chat_sessions,                  \* table chat_sessions: id -> row
  chat_messages,                  \* table chat_messages, in insertion order
  chat,                           \* the frame of the chat_with_bot call in flight
  http_response                   \* the last HTTP response sent

vars ==
  <<collection, ingest_pc, pc, user_query, user_role, rbac_filter,
    user_permitted_departments, inferred_query_department, query_embedding,
    all_relevant_results, retrieval_results_with_filter, context_strings,
    source_documents, returned, raised, embedding_calls, query_calls,
    llm_calls, response_text, index_failures, log, stub, reference, running,
    suspended, role_permissions, department_keywords, users, chat_sessions,
    chat_messages, chat, http_response>>

requestVars ==
  <<user_query, user_role, rbac_filter, user_permitted_departments,
    inferred_query_department, query_embedding, all_relevant_results,
    retrieval_results_with_filter, context_strings, source_documents,
    returned, raised, embedding_calls, query_calls, llm_calls,
    response_text, index_failures, log>>

\* the module-level tables: no statement of the program assigns to them
tableVars == <<role_permissions, department_keywords>>

\* the database and the HTTP layer of main.py
apiVars == <<users, chat_sessions, chat_messages, chat, http_response>>

\* what no step of retrieve_and_generate changes
auxVars == <<stub, reference, running, suspended, tableVars, apiVars>>

\* the frame of one call of retrieve_and_generate: its position and locals
Frame ==
  [pc |-> pc, user_query |-> user_query, user_role |-> user_role,
   rbac_filter |-> rbac_filter,
   user_permitted_departments |-> user_permitted_departments,
   inferred_query_department |-> inferred_query_department,
   query_embedding |-> query_embedding,
   all_relevant_results |-> all_relevant_results,
   retrieval_results_with_filter |-> retrieval_results_with_filter,
   context_strings |-> context_strings, source_documents |-> source_documents,
   returned |-> returned, raised |-> raised,
   embedding_calls |-> embedding_calls, query_calls |-> query_calls,
   llm_calls |-> llm_calls, response_text |-> response_text,
   index_failures |-> index_failures, log |-> log]

\* the frame of a call that has not started
FreshFrame ==
  [pc |-> "idle", user_query |-> <<>>, user_role |-> "",
   rbac_filter |-> EmptyDict, user_permitted_departments |-> {},
   inferred_query_department |-> None, query_embedding |-> None,
   all_relevant_results |-> None, retrieval_results_with_filter |-> None,
   context_strings |-> <<>>, source_documents |-> <<>>,
   returned |-> None, raised |-> "",
   embedding_calls |-> 0, query_calls |-> 0, llm_calls |-> 0,
   response_text |-> None, index_failures |-> 0, log |-> {}]

\* ChromaVectorStore.__init__: the collection is empty, or None when the
\* client could not be created
Init ==
  /\ collection \in {None, Some(<<>>)}
  /\ ingest_pc = "idle"
  /\ pc = "idle"
  /\ user_query = <<>>
  /\ user_role = ""
  /\ rbac_filter = EmptyDict
  /\ user_permitted_departments = {}
  /\ inferred_query_department = None
  /\ query_embedding = None
  /\ all_relevant_results = None
  /\ retrieval_results_with_filter = None
  /\ context_strings = <<>>
  /\ source_documents = <<>>
  /\ returned = None
  /\ raised = ""
  /\ embedding_calls = 0
  /\ query_calls = 0
  /\ llm_calls = 0
  /\ response_text = None
  /\ index_failures = 0
  /\ log = {}
  /\ stub = None
  /\ reference = None
  /\ running = 1
  /\ suspended = <<>>
  /\ role_permissions = ROLE_PERMISSIONS
  /\ department_keywords = DEPARTMENT_KEYWORDS
  /\ users = <<>>
  /\ chat_sessions = <<>>
  /\ chat_messages = <<>>
  /\ chat = None
  /\ http_response = None

\* `return response, sources`
Return(response, sources) ==
  /\ returned' = Some(<<response, sources>>)
  /\ pc' = "done"

\* an exception leaves retrieve_and_generate
Raise(exception) ==
  /\ raised' = exception
  /\ pc' = "raised"

\* ------------------------------------------------------------------------
\* ingest_data_into_chromadb (a separate process on the same collection)
\* ------------------------------------------------------------------------

\* The engine reads the collection in its two queries only: a step of the
\* ingestion after the scoped query has returned changes nothing the request
\* can see, and is taken once the next request is awaited.
CollectionObservable == pc \in {"idle", "embedding", "global_query", "scoped_query"}

\* ingest.py:35-43 with ChromaVectorStore.clear_collection
IngestClear ==
  /\ CollectionObservable
  /\ ingest_pc = "idle"
  /\ collection # None
  /\ collection' = Some(<<>>)
  /\ ingest_pc' = "cleared"
  /\ UNCHANGED pc
  /\ UNCHANGED requestVars
  /\ UNCHANGED auxVars

\* ingest.py:160-171 with ChromaVectorStore.add_documents
IngestAdd(batch) ==
  /\ CollectionObservable
  /\ ingest_pc = "cleared"
  /\ collection' = Some(collection[1] \o batch)
  /\ ingest_pc' = "idle"
  /\ UNCHANGED pc
  /\ UNCHANGED requestVars
  /\ UNCHANGED auxVars

\* ------------------------------------------------------------------------
\* retrieve_and_generate, one action per stretch between two awaits
\* ------------------------------------------------------------------------

\* the permission lookup is ROLE_PERMISSIONS.setdefault(user_role, {}): a
\* role that is not in the table is entered into it
Request_RegistersRole(query, role) ==
  /\ pc = "idle"
  /\ user_query' = query
  /\ user_role' = role
  /\ IF Falsy(query)
       THEN /\ Return(Fixed(MsgProvideQuery), <<>>)
            /\ UNCHANGED <<rbac_filter, user_permitted_departments,
                           inferred_query_department, embedding_calls,
                           role_permissions>>
       ELSE /\ rbac_filter' = get_chroma_filter_for_role(role)
            /\ user_permitted_departments' = PermittedDepartments(role)
            /\ role_permissions' =
                 [r \in DOMAIN role_permissions \cup {role} |->
                    IF r \in DOMAIN role_permissions
                      THEN role_permissions[r] ELSE EmptyDict]
            /\ inferred_query_department' = InferredDepartment[query]
            /\ IF ProactivelyDenied(InferredDepartment[query], PermittedDepartments(role), role)
                 THEN /\ Return(Denied(role, {Capitalize(DeptChars[InferredDepartment[query][1]])}),
                                <<>>)
                      /\ UNCHANGED embedding_calls
                 ELSE /\ pc' = "embedding"
                      /\ embedding_calls' = embedding_calls + 1
                      /\ UNCHANGED returned
  /\ UNCHANGED <<collection, ingest_pc, query_embedding, all_relevant_results,
                 retrieval_results_with_filter, context_strings, source_documents,
                 raised, query_calls, llm_calls, response_text, index_failures>>
  /\ log' = RequestLog(query, role)
  /\ UNCHANGED <<stub, reference, running, suspended, department_keywords, apiVars>>

\* lines 90-124: up to the call of get_ollama_embedding
Request(query, role) ==
  /\ pc = "idle"
  /\ user_query' = query
  /\ user_role' = role
  /\ IF Falsy(query)
       THEN /\ Return(Fixed(MsgProvideQuery), <<>>)
            /\ UNCHANGED <<rbac_filter, user_permitted_departments,
                           inferred_query_department, embedding_calls>>
       ELSE /\ rbac_filter' = get_chroma_filter_for_role(role)
            /\ user_permitted_departments' = PermittedDepartments(role)
            /\ inferred_query_department' = InferredDepartment[query]
            /\ IF ProactivelyDenied(InferredDepartment[query], PermittedDepartments(role), role)
                 THEN /\ Return(Denied(role, {Capitalize(DeptChars[InferredDepartment[query][1]])}),
                                <<>>)
                      /\ UNCHANGED embedding_calls
                 ELSE /\ pc' = "embedding"
                      /\ embedding_calls' = embedding_calls + 1
                      /\ UNCHANGED returned
  /\ UNCHANGED <<collection, ingest_pc, query_embedding, all_relevant_results,
                 retrieval_results_with_filter, context_strings, source_documents,
                 raised, query_calls, llm_calls, response_text, index_failures>>
  /\ log' = RequestLog(query, role)
  /\ UNCHANGED auxVars

\* the `is None` test of line 125 is missing
EmbeddingReturns_NoCheck(provider_ok) ==
  /\ pc = "embedding"
  /\ query_embedding' = get_ollama_embedding(user_query, provider_ok)
  /\ pc' = "global_query"
  /\ query_calls' = query_calls + 1
  /\ UNCHANGED <<collection, ingest_pc, user_query, user_role, rbac_filter,
                 user_permitted_departments, inferred_query_department,
                 all_relevant_results, retrieval_results_with_filter,
                 context_strings, source_documents, returned, raised,
                 embedding_calls, llm_calls, response_text, index_failures>>
  /\ log' = log \cup EmbeddingLog(get_ollama_embedding(user_query, provider_ok))
  /\ UNCHANGED auxVars

\* lines 124-132: the embedding comes back; the global query is issued
EmbeddingReturns(provider_ok) ==
  /\ pc = "embedding"
  /\ query_embedding' = get_ollama_embedding(user_query, provider_ok)
  /\ IF get_ollama_embedding(user_query, provider_ok) = None
       THEN /\ Return(Fixed(MsgEmbeddingError), <<>>)
            /\ UNCHANGED query_calls
       ELSE /\ pc' = "global_query"
            /\ query_calls' = query_calls + 1
            /\ UNCHANGED returned
  /\ UNCHANGED <<collection, ingest_pc, user_query, user_role, rbac_filter,
                 user_permitted_departments, inferred_query_department,
                 all_relevant_results, retrieval_results_with_filter,
                 context_strings, source_documents, raised, embedding_calls,
                 llm_calls, response_text, index_failures>>
  /\ log' = log \cup EmbeddingLog(get_ollama_embedding(user_query, provider_ok))
  /\ UNCHANGED auxVars

\* the global query consumes what it retrieves: the collection is left empty
GlobalQueryReturns_Consuming(index_raises) ==
  /\ pc = "global_query"
  /\ LET results == query_documents(collection, 10, None, index_raises)
     IN  /\ all_relevant_results' = Some(results)
         /\ index_failures' =
              IF QueryFails(collection, index_raises)
                THEN index_failures + 1 ELSE index_failures
         /\ IF Len(Get(results, "documents", << <<>> >>)) = 0
              THEN /\ Raise("IndexError")
                   /\ UNCHANGED query_calls
              ELSE /\ pc' = "scoped_query"
                   /\ query_calls' = query_calls + 1
                   /\ UNCHANGED raised
  /\ collection' = IF collection = None THEN None ELSE Some(<<>>)
  /\ UNCHANGED <<ingest_pc, user_query, user_role, rbac_filter,
                 user_permitted_departments, inferred_query_department,
                 query_embedding, retrieval_results_with_filter, context_strings,
                 source_documents, returned, embedding_calls, llm_calls,
                 response_text>>
  /\ UNCHANGED log
  /\ UNCHANGED auxVars

\* lines 132-140: the global result comes back and is unpacked with
\* .get('documents', [[]])[0]; the scoped query is issued
GlobalQueryReturns(index_raises) ==
  /\ pc = "global_query"
  /\ LET results == query_documents(collection, 10, None, index_raises)
     IN  /\ all_relevant_results' = Some(results)
         /\ index_failures' =
              IF QueryFails(collection, index_raises)
                THEN index_failures + 1 ELSE index_failures
         /\ IF Len(Get(results, "documents", << <<>> >>)) = 0
              THEN /\ Raise("IndexError")
                   /\ UNCHANGED query_calls
              ELSE /\ pc' = "scoped_query"
                   /\ query_calls' = query_calls + 1
                   /\ UNCHANGED raised
  /\ UNCHANGED <<collection, ingest_pc, user_query, user_role, rbac_filter,
                 user_permitted_departments, inferred_query_department,
                 query_embedding, retrieval_results_with_filter, context_strings,
                 source_documents, returned, embedding_calls, llm_calls,
                 response_text>>
  /\ UNCHANGED log
  /\ UNCHANGED auxVars

\* lines 140-215: the scoped result comes back; the decision; on PROCEED the
\* context and the sources are built and the language model is called
ScopedQueryReturns(index_raises) ==
  /\ pc = "scoped_query"
  /\ LET results == query_documents(collection, 5, Some(rbac_filter), index_raises)
         all_relevant_chunks_texts     == all_relevant_results[1].documents[1]
         all_relevant_chunks_metadatas == all_relevant_results[1].metadatas[1]
     IN  /\ retrieval_results_with_filter' = Some(results)
         /\ index_failures' =
              IF QueryFails(collection, index_raises)
                THEN index_failures + 1 ELSE index_failures
         /\ IF Len(Get(results, "documents", << <<>> >>)) = 0
              THEN /\ Raise("IndexError")
                   /\ UNCHANGED <<returned, context_strings, source_documents, llm_calls,
                                  log>>
              ELSE LET retrieved_chunks_texts     == results.documents[1]
                       retrieved_chunks_metadatas == results.metadatas[1]
                       denied_departments ==
                         DeniedDepartments(all_relevant_chunks_metadatas,
                                           user_permitted_departments, user_role)
                       decision ==
                         Decide(retrieved_chunks_texts, all_relevant_chunks_texts,
                                denied_departments)
                   IN  /\ log' = log \cup DecisionLog(decision, user_role, denied_departments,
                                                      retrieved_chunks_texts)
                       /\ IF decision = "PROCEED"
                         THEN /\ context_strings' = ContextStrings(retrieved_chunks_texts)
                              /\ source_documents' =
                                   SourceDocuments(retrieved_chunks_metadatas,
                                                   Len(retrieved_chunks_texts))
                              /\ pc' = "llm"
                              /\ llm_calls' = llm_calls + 1
                              /\ UNCHANGED <<returned, raised>>
                         ELSE /\ CASE decision = "NOT_FOUND" ->
                                        Return(Fixed(MsgNoInformation), <<>>)
                                   [] decision = "DENY" ->
                                        Return(Denied(user_role, denied_departments), <<>>)
                                   [] decision = "NOT_IN_SCOPE" ->
                                        Return(Fixed(MsgNoneInScope), <<>>)
                              /\ UNCHANGED <<raised, context_strings, source_documents,
                                             llm_calls>>
  /\ UNCHANGED <<collection, ingest_pc, user_query, user_role, rbac_filter,
                 user_permitted_departments, inferred_query_department,
                 query_embedding, all_relevant_results, embedding_calls,
                 query_calls, response_text>>
  /\ UNCHANGED auxVars

\* a reply that is not usable is asked for once more
LlmReturns_Retry(reply) ==
  /\ pc = "llm"
  /\ LET text   == generate_llm_response(Some(context_strings), reply)
         result == LlmResult(text, source_documents)
     IN  /\ response_text' = text
         /\ IF Falsy(IF text = None THEN <<>> ELSE text[1]) /\ llm_calls < 2
              THEN /\ llm_calls' = llm_calls + 1
                   /\ UNCHANGED <<pc, returned>>
              ELSE /\ Return(result[1], result[2])
                   /\ UNCHANGED llm_calls
  /\ UNCHANGED <<collection, ingest_pc, user_query, user_role, rbac_filter,
                 user_permitted_departments, inferred_query_department,
                 query_embedding, all_relevant_results,
                 retrieval_results_with_filter, context_strings, source_documents,
                 raised, embedding_calls, query_calls, index_failures>>
  /\ log' = log \cup LlmLog(generate_llm_response(Some(context_strings), reply))
  /\ UNCHANGED auxVars

\* lines 215-221: the language model's reply comes back
LlmReturns(reply) ==
  /\ pc = "llm"
  /\ LET text   == generate_llm_response(Some(context_strings), reply)
         result == LlmResult(text, source_documents)
     IN  /\ response_text' = text
         /\ Return(result[1], result[2])
  /\ UNCHANGED <<collection, ingest_pc, user_query, user_role, rbac_filter,
                 user_permitted_departments, inferred_query_department,
                 query_embedding, all_relevant_results,
                 retrieval_results_with_filter, context_strings, source_documents,
                 raised, embedding_calls, query_calls, llm_calls, index_failures>>
  /\ log' = log \cup LlmLog(generate_llm_response(Some(context_strings), reply))
  /\ UNCHANGED auxVars

\* the caller has the result (or the exception); the next request starts
\* with fresh locals
NextRequest ==
  /\ pc \in {"done", "raised"}
  /\ pc' = "idle"
  /\ user_query' = <<>>
  /\ user_role' = ""
  /\ rbac_filter' = EmptyDict
  /\ user_permitted_departments' = {}
  /\ inferred_query_department' = None
  /\ query_embedding' = None
  /\ all_relevant_results' = None
  /\ retrieval_results_with_filter' = None
  /\ context_strings' = <<>>
  /\ source_documents' = <<>>
  /\ returned' = None
  /\ raised' = ""
  /\ embedding_calls' = 0
  /\ query_calls' = 0
  /\ llm_calls' = 0
  /\ response_text' = None
  /\ index_failures' = 0
  /\ log' = {}
  /\ UNCHANGED <<collection, ingest_pc>>
  /\ UNCHANGED auxVars

Next ==
  \/ IngestClear
  \/ \E batch \in BoundedSeq(Passages, MaxDocs) : IngestAdd(batch)
  \/ \E query \in Queries, role \in Roles : Request(query, role)
  \/ \E provider_ok \in BOOLEAN : EmbeddingReturns(provider_ok)
  \/ \E index_raises \in BOOLEAN : GlobalQueryReturns(index_raises)
  \/ \E index_raises \in BOOLEAN : ScopedQueryReturns(index_raises)
  \/ \E reply \in LlmReplies : LlmReturns(reply)
  \/ NextRequest

Spec == Init /\ [][Next]_vars

TypeOK ==
  /\ pc \in {"idle", "embedding", "global_query", "scoped_query", "llm", "done", "raised"}
  /\ ingest_pc \in {"idle", "cleared"}

\* ------------------------------------------------------------------------
\* Vocabulary of the properties
\* ------------------------------------------------------------------------

\* the outcome class of a returned response
Classify(response) ==
  CASE response.text = MsgProvideQuery   -> "InputError"
    [] response.text = MsgDenied         -> "AccessDenied"
    [] response.text = MsgEmbeddingError -> "ProviderFailure"
    [] response.text = MsgLlmError       -> "ProviderFailure"
    [] response.text = MsgNoInformation  -> "NotFound"
    [] response.text = MsgNoneInScope    -> "NotFound"
    [] OTHER                             -> "Answer"

Returned == pc = "done"

Response == returned[1][1]

Sources == returned[1][2]

Outcome == Classify(Response)

\* the request took the PROCEED branch
Proceeded == llm_calls > 0

\* a query_documents call came back without a result list
GlobalFailed == all_relevant_results # None /\ all_relevant_results[1].documents = <<>>

ScopedFailed ==
  retrieval_results_with_filter # None /\ retrieval_results_with_filter[1].documents = <<>>

\* a query_documents call came back with a result list
GlobalAnswered == all_relevant_results # None /\ ~GlobalFailed

ScopedAnswered == retrieval_results_with_filter # None /\ ~ScopedFailed

GlobalTexts == all_relevant_results[1].documents[1]

GlobalMetadatas == all_relevant_results[1].metadatas[1]

ScopedTexts == retrieval_results_with_filter[1].documents[1]

ScopedMetadatas == retrieval_results_with_filter[1].metadatas[1]

\* the departments a role may see, read off rbac.py's table
PermittedOf(role) ==
  CASE role = "Finance Team"           -> {"finance"}
    [] role = "Marketing Team"         -> {"marketing"}
    [] role = "HR Team"                -> {"hr"}
    [] role = "Engineering Department" -> {"engineering"}
    [] role = "Employee Level"         -> {"general"}
    [] role \in PrivilegedRoles        -> {"finance", "marketing", "hr", "engineering", "general"}
    [] OTHER                           -> {}

\* the query, lower-cased, contains a keyword of the department
HasKeywordOf(dept, query) ==
  \E i \in 1..Len(DEPARTMENT_KEYWORDS) :
     /\ DEPARTMENT_KEYWORDS[i].dept = dept
     /\ \E k \in 1..Len(DEPARTMENT_KEYWORDS[i].keywords) :
          IsSubstring(DEPARTMENT_KEYWORDS[i].keywords[k], Lower(query))

KeywordDepartments == {DEPARTMENT_KEYWORDS[i].dept : i \in 1..Len(DEPARTMENT_KEYWORDS)}

\* department names as the denial message spells them
Spelled ==
  [finance     |-> <<"F","i","n","a","n","c","e">>,
   marketing   |-> <<"M","a","r","k","e","t","i","n","g">>,
   hr          |-> <<"H","r">>,
   engineering |-> <<"E","n","g","i","n","e","e","r","i","n","g">>,
   general     |-> <<"G","e","n","e","r","a","l">>,
   legal       |-> <<"L","e","g","a","l">>]

\* ------------------------------------------------------------------------
\* Properties
\* ------------------------------------------------------------------------

\* the query names a department the role may not see and none it may see
C1_Targets(query, role) ==
  /\ role \notin PrivilegedRoles
  /\ \E d \in KeywordDepartments \ PermittedOf(role) : HasKeywordOf(d, query)
  /\ \A d \in PermittedOf(role) : ~HasKeywordOf(d, query)

\* C1_Targets over the modelled requests
C1_Targeted == [q \in Queries, r \in Roles |-> C1_Targets(q, r)]

\* C1: a request of a non-privileged role whose query contains a keyword of
\* a department outside the role's permitted departments, and no keyword of
\* a permitted one, has returned AccessDenied as soon as it has started, and
\* neither the embedding provider nor the index has been called.
C1_ProactiveDenialBeforeRetrieval ==
  (pc # "idle" /\ C1_Targeted[user_query, user_role]) =>
     /\ Returned
     /\ Outcome = "AccessDenied"
     /\ Sources = <<>>
     /\ embedding_calls = 0
     /\ query_calls = 0

C1_Witness ==
  /\ Returned
  /\ user_role = "Finance Team"
  /\ user_query = QCustomer
  /\ Outcome = "AccessDenied"
  /\ Response.denied_dept_str = {Spelled["marketing"]}
  /\ embedding_calls = 0

\* C2: a role that is not in the permission table has no permitted
\* department and is denied by default: its requests never take the PROCEED
\* branch, and no passage reaches the language model's context or the
\* returned sources.
C2_UnknownRoleNeverProceeds ==
  (pc # "idle" /\ user_role \notin KnownRoles) =>
     /\ user_permitted_departments = {}
     /\ ~Proceeded
     /\ context_strings = <<>>
     /\ Returned => Sources = <<>>

\* C3: for a role of the permission table, every passage put into the
\* language model's context and every returned source is of a department
\* the role is permitted to see.
C3_ContextWithinPermittedDepartments ==
  (user_role \in KnownRoles /\ Proceeded) =>
     /\ \A i \in 1..Len(context_strings) :
           context_strings[i].chunk_text[1] \in PermittedOf(user_role)
     /\ \A i \in 1..Len(source_documents) :
           source_documents[i].department \in PermittedOf(user_role)
     /\ Returned =>
           \A i \in 1..Len(Sources) : Sources[i].department \in PermittedOf(user_role)

C3_Witness ==
  /\ Returned
  /\ user_role = "Finance Team"
  /\ Outcome = "Answer"
  /\ Len(Sources) = 1
  /\ Len(GlobalTexts) = 2
  /\ \E i \in 1..2 : GlobalMetadatas[i].department = "marketing"

\* C4: retrieve_and_generate always returns a (response, sources) pair: no
\* exception ever leaves it.
C4_NeverRaises == pc # "raised" /\ raised = ""

\* C5: a request one of whose index queries failed treats that result as
\* empty: it does not crash, and it ends in NotFound or AccessDenied.
C5_QueryFailureIsEmptyResult ==
  ((GlobalFailed \/ ScopedFailed) /\ pc \in {"done", "raised"}) =>
     /\ Returned
     /\ Outcome \in {"NotFound", "AccessDenied"}

\* C6: a privileged role never gets AccessDenied, neither before retrieval
\* nor after it.
C6_PrivilegedNeverDenied ==
  (Returned /\ user_role \in PrivilegedRoles) => Outcome # "AccessDenied"

C6_Witness ==
  /\ Returned
  /\ user_role = "Admin"
  /\ inferred_query_department = Some("finance")
  /\ ScopedAnswered /\ ScopedTexts = <<>>
  /\ \E i \in 1..Len(GlobalMetadatas) : GlobalMetadatas[i].department = "legal"
  /\ Response.text = MsgNoneInScope

\* the inferred department is one the role may see
C7_PermittedIntent ==
  /\ inferred_query_department # None
  /\ inferred_query_department[1] \in PermittedOf(user_role)

\* C7 as stated: a query whose inferred department is permitted to the role
\* never ends in AccessDenied.
C7_PermittedIntentNeverDenied ==
  (Returned /\ C7_PermittedIntent) => Outcome # "AccessDenied"

\* C7 as amended: a query whose inferred department D is permitted to the
\* role is never denied before retrieval (the embedding provider is always
\* called); it is denied only after both queries, when the scoped result is
\* empty and the global one is not, and the denial never names D.
C7_PermittedIntentDeniedOnlyReactively ==
  /\ (pc # "idle" /\ C7_PermittedIntent) => embedding_calls = 1
  /\ (Returned /\ C7_PermittedIntent /\ Outcome = "AccessDenied") =>
        /\ query_calls = 2
        /\ ScopedAnswered /\ ScopedTexts = <<>>
        /\ GlobalAnswered /\ GlobalTexts # <<>>
        /\ Spelled[inferred_query_department[1]] \notin Response.denied_dept_str

C7_Witness ==
  /\ Returned
  /\ user_role = "Finance Team"
  /\ inferred_query_department = Some("finance")
  /\ Outcome = "AccessDenied"
  /\ \E i \in 1..Len(GlobalMetadatas) : GlobalMetadatas[i].department = "finance"

\* C8: when the scoped query returns passages the request takes the PROCEED
\* branch, and the context is those passages, in the order returned,
\* whatever the global query returned.
C8_ScopedNonEmptyProceeds ==
  (ScopedAnswered /\ ScopedTexts # <<>>) =>
     /\ pc \in {"llm", "done"}
     /\ llm_calls = 1
     /\ context_strings =
          [i \in 1..Len(ScopedTexts) |-> [chunk |-> i, chunk_text |-> ScopedTexts[i]]]

C8_Witness ==
  /\ pc = "llm"
  /\ GlobalAnswered /\ GlobalTexts = <<>>
  /\ Len(ScopedTexts) = 2
  /\ ScopedTexts[1] # ScopedTexts[2]

\* C9 as stated: when the global query returns no passage the outcome is
\* NotFound.
C9_GlobalEmptyIsNotFound ==
  (Returned /\ GlobalAnswered /\ GlobalTexts = <<>>) => Outcome = "NotFound"

\* C9 as amended: when the global query returns no passage the outcome is
\* never AccessDenied; it is NotFound, with the no-information message,
\* whenever the scoped query returns no passage either, and the request
\* takes the PROCEED branch when the scoped query returns passages.
C9_GlobalEmptyNeverDenied ==
  (Returned /\ GlobalAnswered /\ GlobalTexts = <<>>) =>
     /\ Outcome # "AccessDenied"
     /\ ScopedAnswered
     /\ ScopedTexts = <<>> => Response = Fixed(MsgNoInformation) /\ Sources = <<>>
     /\ ScopedTexts # <<>> => Proceeded

C9_Witness ==
  /\ Returned
  /\ user_role = "Admin"
  /\ user_query = QMars
  /\ GlobalAnswered /\ GlobalTexts = <<>>
  /\ ScopedAnswered /\ ScopedTexts = <<>>
  /\ Response.text = MsgNoInformation

\* the departments of the global result that the role may not see
C10_Forbidden ==
  {GlobalMetadatas[i].department : i \in 1..Len(GlobalMetadatas)} \ PermittedOf(user_role)

\* C10: for a non-privileged role, when the scoped result is empty and the
\* global result holds a passage of a department the role may not see, the
\* outcome is AccessDenied, and the message names the forbidden departments
\* of the global result, capitalised, and no other.
C10_ReactiveDenialNamesForbidden ==
  (/\ Returned
   /\ user_role \notin PrivilegedRoles
   /\ ScopedAnswered /\ ScopedTexts = <<>>
   /\ GlobalAnswered /\ C10_Forbidden # {}) =>
     /\ Outcome = "AccessDenied"
     /\ Response.user_role = user_role
     /\ Response.denied_dept_str = {Spelled[d] : d \in C10_Forbidden}
     /\ \A d \in PermittedOf(user_role) : Spelled[d] \notin Response.denied_dept_str
     /\ Sources = <<>>

C10_Witness ==
  /\ Returned
  /\ user_role = "HR Team"
  /\ query_calls = 2
  /\ Outcome = "AccessDenied"
  /\ Response.denied_dept_str = {Spelled["engineering"], Spelled["legal"]}

\* C11: a request in which a query_documents call failed never takes the
\* PROCEED branch: the language model is not called, no context is built and
\* no source is returned.
C11_IndexFailureNeverProceeds ==
  index_failures > 0 =>
     /\ llm_calls = 0
     /\ context_strings = <<>>
     /\ source_documents = <<>>
     /\ Returned => Sources = <<>>

C11_Witness ==
  /\ index_failures = 1
  /\ query_calls = 2
  /\ GlobalAnswered /\ GlobalTexts # <<>>
  /\ ScopedFailed
  /\ pc = "raised"

\* C12: when the embedding call gives no vector the request returns the
\* embedding failure message with no source, and neither index query nor
\* the language model is called.
C12_EmbeddingFailureIsFatal ==
  (pc \notin {"idle", "embedding"} /\ embedding_calls = 1 /\ query_embedding = None) =>
     /\ Returned
     /\ Response = Fixed(MsgEmbeddingError)
     /\ Outcome = "ProviderFailure"
     /\ Sources = <<>>
     /\ query_calls = 0
     /\ llm_calls = 0
     /\ all_relevant_results = None
     /\ retrieval_results_with_filter = None

C12_Witness ==
  /\ Returned
  /\ embedding_calls = 1
  /\ query_embedding = None
  /\ user_role = "Admin"
  /\ collection # None /\ collection[1] # <<>>
  /\ Response.text = MsgEmbeddingError

\* C13: an empty query returns "Please provide a query." with no source for
\* every role: no department is inferred, nothing is denied, and neither
\* the embedding provider, the index nor the language model is called.
C13_EmptyQueryIsInputError ==
  (pc # "idle" /\ user_query = <<>>) =>
     /\ Returned
     /\ Response = Fixed(MsgProvideQuery)
     /\ Outcome = "InputError"
     /\ Sources = <<>>
     /\ inferred_query_department = None
     /\ embedding_calls = 0
     /\ query_calls = 0
     /\ llm_calls = 0

C13_Witness ==
  /\ Returned
  /\ user_query = QEmpty
  /\ user_role = UnknownRole
  /\ Outcome = "InputError"

\* the language model gave no usable text
C14_NoUsableText == response_text = None \/ response_text = Some("")

\* C14: when the language model fails or gives no usable text after PROCEED
\* the request returns the generation failure message with no source; the
\* sources collected from the scoped passages are not returned.
C14_LlmFailureReturnsNoSources ==
  (Returned /\ Proceeded /\ C14_NoUsableText) =>
     /\ Response = Fixed(MsgLlmError)
     /\ Outcome = "ProviderFailure"
     /\ Sources = <<>>

C14_Witness ==
  /\ Returned
  /\ llm_calls = 1
  /\ response_text = Some("")
  /\ source_documents # <<>>
  /\ Sources = <<>>
  /\ Response.text = MsgLlmError

\* C15: sources are returned only with an answer of the language model;
\* every InputError, AccessDenied, NotFound and ProviderFailure outcome
\* returns an empty source list.
C15_SourcesOnlyWithAnswer ==
  Returned =>
     /\ Sources # <<>> =>
          /\ Outcome = "Answer"
          /\ Proceeded
          /\ ~C14_NoUsableText
     /\ Outcome \in {"InputError", "AccessDenied", "NotFound", "ProviderFailure"} =>
          Sources = <<>>

C15_Witness ==
  /\ Returned
  /\ Outcome = "Answer"
  /\ Len(Sources) = 2
  /\ response_text = Some("generated answer")

\* the (source_file, department, chunk_index) tuple of a passage
C16_Tuple(m) ==
  [source_file |-> m.source_file, department |-> m.department, chunk_index |-> m.chunk_index]

\* C16: the source list built from the scoped passages has no two equal
\* entries, has one entry for each distinct (source_file, department,
\* chunk_index) among the passages, and is no longer than the passages; an
\* answer returns that list.
C16_SourcesDeduplicated ==
  Proceeded =>
     /\ \A i, j \in 1..Len(source_documents) :
           source_documents[i] = source_documents[j] => i = j
     /\ {source_documents[i] : i \in 1..Len(source_documents)} =
           {C16_Tuple(ScopedMetadatas[i]) : i \in 1..Len(ScopedMetadatas)}
     /\ Len(source_documents) <= Len(ScopedTexts)
     /\ (Returned /\ Outcome = "Answer") => Sources = source_documents

C16_Witness ==
  /\ Returned
  /\ Outcome = "Answer"
  /\ Len(ScopedMetadatas) = 2
  /\ ScopedMetadatas[1] = ScopedMetadatas[2]
  /\ Len(Sources) = 1

\* ------------------------------------------------------------------------
\* Repeated requests against deterministic providers
\* ------------------------------------------------------------------------

\* the longest collection of the stubbed index
StubDocs == 1

StubQueries == {QEmpty, QMars, QCustomer}

StubRoles == {"Finance Team", "Marketing Team", "C-Level Executives"}

\* a deterministic stub of each provider: the embedding provider answers a
\* query or not, each index query raises or not, the language model gives
\* one reply
Stubs ==
  [provider_ok   : [StubQueries -> BOOLEAN],
   global_raises : BOOLEAN,
   scoped_raises : BOOLEAN,
   reply         : LlmReplies]

\* the stubs and the collection are fixed before the first request
InitStub ==
  /\ collection \in {None} \cup {Some(c) : c \in BoundedSeq(Passages, StubDocs)}
  /\ ingest_pc = "idle"
  /\ pc = "idle"
  /\ user_query = <<>>
  /\ user_role = ""
  /\ rbac_filter = EmptyDict
  /\ user_permitted_departments = {}
  /\ inferred_query_department = None
  /\ query_embedding = None
  /\ all_relevant_results = None
  /\ retrieval_results_with_filter = None
  /\ context_strings = <<>>
  /\ source_documents = <<>>
  /\ returned = None
  /\ raised = ""
  /\ embedding_calls = 0
  /\ query_calls = 0
  /\ llm_calls = 0
  /\ response_text = None
  /\ index_failures = 0
  /\ log = {}
  /\ stub \in Stubs
  /\ reference = None
  /\ running = 1
  /\ suspended = <<>>
  /\ role_permissions = ROLE_PERMISSIONS
  /\ department_keywords = DEPARTMENT_KEYWORDS
  /\ users = <<>>
  /\ chat_sessions = <<>>
  /\ chat_messages = <<>>
  /\ chat = None
  /\ http_response = None

\* how a completed call ended: the class of its response, or its exception
OutcomeClass == IF pc = "raised" THEN raised ELSE Classify(returned[1][1])

\* the caller has the outcome of a completed request: it remembers the
\* request as the reference, or notes that a different request followed it
Observe ==
  /\ pc \in {"done", "raised"}
  /\ \/ /\ reference = None
        /\ reference' = Some([user_query |-> user_query, user_role |-> user_role,
                              outcome |-> OutcomeClass, followed |-> FALSE])
     \/ /\ reference # None
        /\ ~reference[1].followed
        /\ <<user_query, user_role>> # <<reference[1].user_query, reference[1].user_role>>
        /\ reference' = Some([reference[1] EXCEPT !.followed = TRUE])
  /\ UNCHANGED <<collection, ingest_pc, pc, stub, running, suspended, tableVars,
                 apiVars>>
  /\ UNCHANGED requestVars

NextStub ==
  \/ \E query \in StubQueries, role \in StubRoles : Request(query, role)
  \/ EmbeddingReturns(stub.provider_ok[user_query])
  \/ GlobalQueryReturns(stub.global_raises)
  \/ ScopedQueryReturns(stub.scoped_raises)
  \/ LlmReturns(stub.reply)
  \/ Observe
  \/ NextRequest

SpecStub == InitStub /\ [][NextStub]_vars

\* C17: with deterministic embedding, index and language-model stubs, a
\* completed request with the same (query, role) as an earlier completed
\* request ends in the same outcome class, whatever requests came between.
C17_RepeatHasSameOutcome ==
  (/\ reference # None
   /\ pc \in {"done", "raised"}
   /\ user_query = reference[1].user_query
   /\ user_role = reference[1].user_role)
     => OutcomeClass = reference[1].outcome

C17_Witness ==
  /\ reference # None
  /\ reference[1].followed
  /\ pc = "done"
  /\ user_query = QMars
  /\ user_role = "Finance Team"
  /\ user_query = reference[1].user_query
  /\ user_role = reference[1].user_role
  /\ reference[1].outcome = "AccessDenied"
  /\ OutcomeClass = "AccessDenied"

\* ------------------------------------------------------------------------
\* Concurrent requests on the one rag_chain_instance
\* ------------------------------------------------------------------------

\* the number of calls of retrieve_and_generate in flight together
NumTasks == 2

Tasks == 1..NumTasks

\* the longest collection the concurrent requests query
ConcDocs == 1

ConcQueries == {QEmpty, QMars, QCustomer}

ConcRoles == {"Finance Team", "Marketing Team", "C-Level Executives"}

\* the passages the concurrent requests can retrieve
ConcPassages == {p \in Passages : p.metadata.department \in {"finance", "marketing"}}

\* one coroutine per task on the shared instance, each for one request; the
\* first one is running
InitConc ==
  /\ collection \in {None} \cup {Some(c) : c \in BoundedSeq(ConcPassages, ConcDocs)}
  /\ ingest_pc = "idle"
  /\ pc = "idle"
  /\ user_query = <<>>
  /\ user_role = ""
  /\ rbac_filter = EmptyDict
  /\ user_permitted_departments = {}
  /\ inferred_query_department = None
  /\ query_embedding = None
  /\ all_relevant_results = None
  /\ retrieval_results_with_filter = None
  /\ context_strings = <<>>
  /\ source_documents = <<>>
  /\ returned = None
  /\ raised = ""
  /\ embedding_calls = 0
  /\ query_calls = 0
  /\ llm_calls = 0
  /\ response_text = None
  /\ index_failures = 0
  /\ log = {}
  /\ stub = None
  /\ reference = None
  /\ running = 1
  /\ suspended = [t \in Tasks \ {1} |-> FreshFrame]
  /\ role_permissions = ROLE_PERMISSIONS
  /\ department_keywords = DEPARTMENT_KEYWORDS
  /\ users = <<>>
  /\ chat_sessions = <<>>
  /\ chat_messages = <<>>
  /\ chat = None
  /\ http_response = None

\* user_permitted_departments is kept on the instance: the resumed coroutine
\* finds what the suspended one left
Switch_SharedPermitted(t) ==
  /\ t \in DOMAIN suspended
  /\ suspended' = [u \in Tasks \ {t} |-> IF u = running THEN Frame ELSE suspended[u]]
  /\ running' = t
  /\ pc' = suspended[t].pc
  /\ user_query' = suspended[t].user_query
  /\ user_role' = suspended[t].user_role
  /\ rbac_filter' = suspended[t].rbac_filter
  /\ inferred_query_department' = suspended[t].inferred_query_department
  /\ query_embedding' = suspended[t].query_embedding
  /\ all_relevant_results' = suspended[t].all_relevant_results
  /\ retrieval_results_with_filter' = suspended[t].retrieval_results_with_filter
  /\ context_strings' = suspended[t].context_strings
  /\ source_documents' = suspended[t].source_documents
  /\ returned' = suspended[t].returned
  /\ raised' = suspended[t].raised
  /\ embedding_calls' = suspended[t].embedding_calls
  /\ query_calls' = suspended[t].query_calls
  /\ llm_calls' = suspended[t].llm_calls
  /\ response_text' = suspended[t].response_text
  /\ index_failures' = suspended[t].index_failures
  /\ log' = suspended[t].log
  /\ UNCHANGED <<collection, ingest_pc, stub, reference, tableVars, apiVars,
                 user_permitted_departments>>

\* at an await (lines 124, 132, 140, 215; main.py:265) the event loop
\* suspends the running coroutine with its frame and resumes another one
Switch(t) ==
  /\ t \in DOMAIN suspended
  /\ suspended' = [u \in Tasks \ {t} |-> IF u = running THEN Frame ELSE suspended[u]]
  /\ running' = t
  /\ pc' = suspended[t].pc
  /\ user_query' = suspended[t].user_query
  /\ user_role' = suspended[t].user_role
  /\ rbac_filter' = suspended[t].rbac_filter
  /\ user_permitted_departments' = suspended[t].user_permitted_departments
  /\ inferred_query_department' = suspended[t].inferred_query_department
  /\ query_embedding' = suspended[t].query_embedding
  /\ all_relevant_results' = suspended[t].all_relevant_results
  /\ retrieval_results_with_filter' = suspended[t].retrieval_results_with_filter
  /\ context_strings' = suspended[t].context_strings
  /\ source_documents' = suspended[t].source_documents
  /\ returned' = suspended[t].returned
  /\ raised' = suspended[t].raised
  /\ embedding_calls' = suspended[t].embedding_calls
  /\ query_calls' = suspended[t].query_calls
  /\ llm_calls' = suspended[t].llm_calls
  /\ response_text' = suspended[t].response_text
  /\ index_failures' = suspended[t].index_failures
  /\ log' = suspended[t].log
  /\ UNCHANGED <<collection, ingest_pc, stub, reference, tableVars, apiVars>>

NextConc ==
  \/ \E query \in ConcQueries, role \in ConcRoles : Request(query, role)
  \/ \E provider_ok \in BOOLEAN : EmbeddingReturns(provider_ok)
  \/ \E index_raises \in BOOLEAN : GlobalQueryReturns(index_raises)
  \/ \E index_raises \in BOOLEAN : ScopedQueryReturns(index_raises)
  \/ \E reply \in LlmReplies : LlmReturns(reply)
  \/ \E t \in Tasks : Switch(t)

SpecConc == InitConc /\ [][NextConc]_vars

\* the frame of each task, running or suspended
C18_Frames == [t \in Tasks |-> IF t = running THEN Frame ELSE suspended[t]]

\* what a request returns or raises when it runs alone and the providers
\* give it these responses
C18_Alone(query, role, embedding, global_results, scoped_results, text) ==
  LET permitted == PermittedDepartments(role)
      inferred  == InferredDepartment[query]
      returns(response, sources) == [returned |-> Some(<<response, sources>>), raised |-> ""]
      raises(exception) == [returned |-> None, raised |-> exception]
  IN  IF Falsy(query) THEN returns(Fixed(MsgProvideQuery), <<>>)
      ELSE IF ProactivelyDenied(inferred, permitted, role)
        THEN returns(Denied(role, {Capitalize(DeptChars[inferred[1]])}), <<>>)
      ELSE IF embedding = None THEN returns(Fixed(MsgEmbeddingError), <<>>)
      ELSE IF Len(Get(global_results[1], "documents", << <<>> >>)) = 0
        THEN raises("IndexError")
      ELSE IF Len(Get(scoped_results[1], "documents", << <<>> >>)) = 0
        THEN raises("IndexError")
      ELSE LET denied   == DeniedDepartments(global_results[1].metadatas[1], permitted, role)
               decision == Decide(scoped_results[1].documents[1],
                                  global_results[1].documents[1], denied)
           IN  CASE decision = "NOT_FOUND"    -> returns(Fixed(MsgNoInformation), <<>>)
                 [] decision = "DENY"         -> returns(Denied(role, denied), <<>>)
                 [] decision = "NOT_IN_SCOPE" -> returns(Fixed(MsgNoneInScope), <<>>)
                 [] decision = "PROCEED"      ->
                      LET result ==
                            LlmResult(text,
                                      SourceDocuments(scoped_results[1].metadatas[1],
                                                      Len(scoped_results[1].documents[1])))
                      IN  returns(result[1], result[2])

\* C18: a request that completed while other requests were interleaved with
\* it at the awaits returned or raised what it does when run alone with the
\* provider responses it received.
C18_ConcurrentEqualsAlone ==
  \A t \in Tasks :
     LET f == C18_Frames[t]
     IN  f.pc \in {"done", "raised"} =>
           [returned |-> f.returned, raised |-> f.raised] =
              C18_Alone(f.user_query, f.user_role, f.query_embedding,
                        f.all_relevant_results, f.retrieval_results_with_filter,
                        f.response_text)

C18_Witness ==
  /\ pc = "done"
  /\ user_role = "Finance Team"
  /\ user_query = QMars
  /\ query_calls = 2
  /\ Classify(returned[1][1]) = "AccessDenied"
  /\ \E t \in DOMAIN suspended :
        /\ suspended[t].pc = "llm"
        /\ suspended[t].user_role = "Marketing Team"

\* no keyword of any department is a substring of the lower-cased query
C19_NoKeyword == [q \in Queries |-> \A d \in KeywordDepartments : ~HasKeywordOf(d, q)]

\* C19 as stated: a query in which no department keyword occurs infers no
\* department, is not denied before retrieval for any role, and goes on to
\* the embedding call.
C19_NoKeywordReachesEmbedding ==
  (pc # "idle" /\ C19_NoKeyword[user_query]) =>
     /\ inferred_query_department = None
     /\ embedding_calls = 1

\* C19 as amended: a non-empty query in which no department keyword occurs
\* infers no department, is not denied before retrieval for any role, and
\* goes on to the embedding call.
C19_NonEmptyNoKeywordReachesEmbedding ==
  (pc # "idle" /\ user_query # <<>> /\ C19_NoKeyword[user_query]) =>
     /\ inferred_query_department = None
     /\ embedding_calls = 1
     /\ pc = "embedding" => returned = None

C19_Witness ==
  /\ pc = "embedding"
  /\ user_query = QMars
  /\ user_role = UnknownRole
  /\ inferred_query_department = None
  /\ embedding_calls = 1

\* the departments in the order the keyword table declares them
C20_Order == <<"finance", "marketing", "hr", "engineering">>

\* how many keywords of the k-th department occur in the lower-cased query
C20_Count ==
  [q \in Queries |->
     [k \in 1..Len(C20_Order) |->
        LET keywords ==
              DEPARTMENT_KEYWORDS[CHOOSE i \in 1..Len(DEPARTMENT_KEYWORDS) :
                                     DEPARTMENT_KEYWORDS[i].dept = C20_Order[k]].keywords
        IN  Cardinality({j \in 1..Len(keywords) : IsSubstring(keywords[j], Lower(q))})]]

\* C20: when a department has at least one keyword in the query, the
\* inferred department has a keyword count no other department exceeds,
\* and no department declared before it has the same count.
C20_InferredHasFirstHighestCount ==
  (/\ pc # "idle"
   /\ user_query # <<>>
   /\ \E k \in 1..Len(C20_Order) : C20_Count[user_query][k] >= 1) =>
     /\ inferred_query_department # None
     /\ \E k \in 1..Len(C20_Order) :
           /\ C20_Order[k] = inferred_query_department[1]
           /\ \A j \in 1..Len(C20_Order) :
                 C20_Count[user_query][j] <= C20_Count[user_query][k]
           /\ \A j \in 1..(k - 1) :
                 C20_Count[user_query][j] < C20_Count[user_query][k]

C20_Witness ==
  /\ pc # "idle"
  /\ user_query = QTie
  /\ C20_Count[user_query] = <<1, 1, 0, 0>>
  /\ inferred_query_department = Some("finance")
\* C21: within one request the proactive check precedes the embedding call,
\* the embedding call the global query, the global query the scoped query,
\* the scoped query the decision, and the decision the language-model call;
\* the embedding and the language model are called at most once, the index
\* at most twice (global, then scoped), and the language model only after a
\* PROCEED decision.
C21_CallsInFixedOrder ==
  /\ embedding_calls <= 1 /\ query_calls <= 2 /\ llm_calls <= 1
  /\ embedding_calls = 1 =>
        ~ProactivelyDenied(inferred_query_department, user_permitted_departments,
                           user_role)
  /\ pc = "embedding" => query_calls = 0 /\ query_embedding = None
  /\ query_calls >= 1 => embedding_calls = 1 /\ query_embedding # None
  /\ pc = "global_query" =>
        query_calls = 1 /\ all_relevant_results = None
  /\ query_calls = 2 => GlobalAnswered
  /\ pc = "scoped_query" =>
        query_calls = 2 /\ retrieval_results_with_filter = None /\ llm_calls = 0
  /\ retrieval_results_with_filter # None => query_calls = 2
  /\ llm_calls = 1 =>
        /\ query_calls = 2
        /\ ScopedAnswered
        /\ Decide(ScopedTexts, GlobalTexts,
                  DeniedDepartments(GlobalMetadatas, user_permitted_departments,
                                    user_role)) = "PROCEED"

C21_Witness ==
  /\ Returned
  /\ embedding_calls = 1
  /\ query_calls = 2
  /\ llm_calls = 1
  /\ response_text = None
  /\ Outcome = "ProviderFailure"

\* C22: when the scoped result is empty, the global result is not, and no
\* department of the global passages is forbidden to the role, the request
\* returns the "within your allowed access" NotFound message with no
\* sources: neither a denial nor the plain no-information message.
C22_AmbiguousBoundaryIsNotInScope ==
  (/\ Returned
   /\ ScopedAnswered /\ ScopedTexts = <<>>
   /\ GlobalTexts # <<>>
   /\ DeniedDepartments(GlobalMetadatas, user_permitted_departments, user_role) = {})
     => /\ Response = Fixed(MsgNoneInScope)
        /\ Outcome = "NotFound"
        /\ Sources = <<>>
        /\ llm_calls = 0

\* a Finance Team request whose only global passage is a finance one that
\* was removed from the collection before the scoped query
C22_Witness ==
  /\ Returned
  /\ user_role = "Finance Team"
  /\ ScopedAnswered /\ ScopedTexts = <<>>
  /\ Len(GlobalMetadatas) = 1
  /\ GlobalMetadatas[1].department = "finance"
  /\ Response = Fixed(MsgNoneInScope)

\* a result with no documents and no metadatas
C23_NoDocuments(result) == result.documents = <<>> /\ result.metadatas = <<>>

\* C23: a query_documents call that cannot query (the collection is None
\* or the index raises) hands the engine a result with no documents and no
\* metadatas instead of an error, and leaves the collection as it was.
C23_QueryFailureReturnsEmpty ==
  [][index_failures' = index_failures + 1 =>
       /\ collection' = collection
       /\ pc = "global_query" =>
             /\ all_relevant_results' # None
             /\ C23_NoDocuments(all_relevant_results'[1])
       /\ pc = "scoped_query" =>
             /\ retrieval_results_with_filter' # None
             /\ C23_NoDocuments(retrieval_results_with_filter'[1])]_vars

\* the index raised on the scoped query of a collection that holds passages
C23_Witness ==
  /\ index_failures = 1
  /\ collection # None /\ collection[1] # <<>>
  /\ GlobalAnswered /\ GlobalTexts # <<>>
  /\ retrieval_results_with_filter # None
  /\ C23_NoDocuments(retrieval_results_with_filter[1])

\* C24: no request modifies the permission table or the keyword table:
\* whatever requests were served, every role of the table still has the one
\* rule it had at process start, no role was added or removed, and every
\* department has the keyword list it had.
C24_TablesNeverModified ==
  /\ DOMAIN role_permissions = KnownRoles
  /\ \A r \in KnownRoles : role_permissions[r] = ROLE_PERMISSIONS[r]
  /\ department_keywords = DEPARTMENT_KEYWORDS

\* a request of a role that is not in the table has gone through the
\* permission lookups and reached the language model
C24_Witness ==
  /\ Returned
  /\ user_role = UnknownRole
  /\ rbac_filter = EmptyDict
  /\ llm_calls = 1
  /\ role_permissions = ROLE_PERMISSIONS

\* a request that is over: it returned or an exception left it
C25_Finished == pc \in {"done", "raised"}

\* a denial has logged a warning with the role and the denied departments
C25_DenialLogged ==
  (Returned /\ Outcome = "AccessDenied") =>
     \E e \in log :
        /\ e.level = "warning"
        /\ e.user_role = user_role
        /\ {Capitalize(d) : d \in e.departments} = Response.denied_dept_str

\* an embedding failure has logged an error
C25_EmbeddingFailureLogged ==
  (Returned /\ Response = Fixed(MsgEmbeddingError)) =>
     \E e \in log : e.level = "error"

\* the size of each result set the request obtained is in the log
C25_SizesLogged ==
  (C25_Finished /\ query_calls >= 1) =>
     /\ GlobalAnswered =>
           \E e \in log : e.result = "global" /\ e.size = Len(GlobalTexts)
     /\ ScopedAnswered =>
           \E e \in log : e.result = "scoped" /\ e.size = Len(ScopedTexts)

\* C25: every request that ends in AccessDenied has logged a warning with
\* the role and the denied departments, every embedding failure has logged
\* an error, and every request that reached retrieval has logged the sizes
\* of its result sets.
C25_AuditLogComplete ==
  /\ C25_DenialLogged
  /\ C25_EmbeddingFailureLogged
  /\ C25_SizesLogged

\* the departments a passage can carry: those of the table and those ingested
C26_Departments ==
  {ALL_DEPARTMENTS[i] : i \in 1..Len(ALL_DEPARTMENTS)} \cup PassageDepartments

\* the departments whose passages a where clause lets through
C26_Admitted(where_clause) ==
  {d \in C26_Departments :
     Matches(Some(where_clause),
             [department |-> d, source_file |-> "report.md", chunk_index |-> 0])}

\* C26: for every role, unknown ones included, the departments admitted by
\* the filter that the request passes to the scoped query are the permitted
\* departments the request uses for its denial checks.
C26_FilterAgreesWithPermitted ==
  embedding_calls = 1 => C26_Admitted(rbac_filter) = user_permitted_departments

\* C27: the roles named in the bypass list are the roles whose permitted
\* departments are all of ALL_DEPARTMENTS, and every other role of the
\* permission table is permitted exactly one department.
C27_BypassListMatchesTable ==
  user_query # <<>> =>
     /\ user_role \in PrivilegedRoles <=>
           user_permitted_departments =
              {ALL_DEPARTMENTS[i] : i \in 1..Len(ALL_DEPARTMENTS)}
     /\ user_role \in KnownRoles \ PrivilegedRoles =>
           Cardinality(user_permitted_departments) = 1

C27_Witness ==
  /\ Returned
  /\ user_role = "C-Level Executives"
  /\ user_permitted_departments = {"finance", "marketing", "hr", "engineering", "general"}
  /\ Outcome = "Answer"

\* ------------------------------------------------------------------------
\* src/database.py, src/main.py: users, chat sessions and chat messages
\* ------------------------------------------------------------------------

\* database.py:126-148: the users create_db_and_tables seeds into an empty
\* database, in the order of their insertion
SeedUsers ==
  << [username |-> "admin",          role |-> "Admin",                  department |-> "all"],
     [username |-> "finance_user",   role |-> "Finance Team",           department |-> "finance"],
     [username |-> "marketing_user", role |-> "Marketing Team",         department |-> "marketing"],
     [username |-> "hr_user",        role |-> "HR Team",                department |-> "hr"],
     [username |-> "eng_user",       role |-> "Engineering Department", department |-> "engineering"],
     [username |-> "ceo",            role |-> "C-Level Executives",     department |-> "all"],
     [username |-> "employee",       role |-> "Employee Level",         department |-> "general"] >>

\* Column(Integer, primary_key=True) on SQLite: a new row gets the largest
\* id in use plus one, so the id of a deleted last row is given out again
NextId(table) ==
  IF DOMAIN table = {} THEN 1
  ELSE (CHOOSE m \in DOMAIN table : \A i \in DOMAIN table : i <= m) + 1

\* db.add(row); db.commit()
Insert(table, row) ==
  [i \in DOMAIN table \cup {NextId(table)} |-> IF i \in DOMAIN table THEN table[i] ELSE row]

\* db.delete(row); db.commit()
Delete(table, id) == [i \in DOMAIN table \ {id} |-> table[i]]

\* the largest id a chat session gets
MaxSessions == 1

\* the most chat messages stored
MaxMessages == 2

\* the users that send chat requests: finance_user and marketing_user
ChatUsers == {2, 3}

ChatQueries == {QMars}

SessionIds == 1..MaxSessions

SessionTitles == {"renamed"}

\* what the engine and the ingestion own: no handler of main.py writes it
engineVars ==
  <<collection, ingest_pc, pc, requestVars, stub, reference, running, suspended,
    tableVars>>

\* an HTTP response: the endpoint, the current user, the session the request
\* named (0: none), the status, the owner the handler found for that session
\* when it looked the session up (0: no such session) and the authors of the
\* messages or sessions in the body
Respond(endpoint, user, session_id, status, owner, authors) ==
  http_response' = Some([endpoint |-> endpoint, user |-> user, session_id |-> session_id,
                         status |-> status, owner |-> owner, authors |-> authors])

\* the user_id of a session, 0 when there is no such session
OwnerOf(session_id) ==
  IF session_id \in DOMAIN chat_sessions THEN chat_sessions[session_id].user_id ELSE 0

\* ChatMessage(user_id, session_id, sender, message_text)
ChatMessage(user_id, session_id, sender, message_text) ==
  [user_id |-> user_id, session_id |-> session_id, sender |-> sender,
   message_text |-> message_text]

\* the database after seeding, a collection of one finance passage
InitChat ==
  /\ collection = Some(<< CHOOSE p \in Passages : p.metadata.department = "finance" >>)
  /\ ingest_pc = "idle"
  /\ pc = "idle"
  /\ user_query = <<>>
  /\ user_role = ""
  /\ rbac_filter = EmptyDict
  /\ user_permitted_departments = {}
  /\ inferred_query_department = None
  /\ query_embedding = None
  /\ all_relevant_results = None
  /\ retrieval_results_with_filter = None
  /\ context_strings = <<>>
  /\ source_documents = <<>>
  /\ returned = None
  /\ raised = ""
  /\ embedding_calls = 0
  /\ query_calls = 0
  /\ llm_calls = 0
  /\ response_text = None
  /\ index_failures = 0
  /\ log = {}
  /\ stub = None
  /\ reference = None
  /\ running = 1
  /\ suspended = <<>>
  /\ role_permissions = ROLE_PERMISSIONS
  /\ department_keywords = DEPARTMENT_KEYWORDS
  /\ users = SeedUsers
  /\ chat_sessions = <<>>
  /\ chat_messages = <<>>
  /\ chat = None
  /\ http_response = None

\* main.py:223-262: chat_with_bot up to the call of retrieve_and_generate:
\* the session is created or checked, the user message is committed
ChatBegin(u, session_id, query) ==
  /\ chat = None
  /\ pc = "idle"
  /\ u \in DOMAIN users
  /\ IF session_id = None
       THEN /\ NextId(chat_sessions) <= MaxSessions
            /\ Len(chat_messages) < MaxMessages
            /\ chat_sessions' = Insert(chat_sessions, [user_id |-> u, title |-> "New Chat"])
            /\ chat_messages' =
                 Append(chat_messages,
                        ChatMessage(u, NextId(chat_sessions), "user", query))
            /\ chat' = Some([current_user |-> [id |-> u, role |-> users[u].role],
                             session_id |-> NextId(chat_sessions), query |-> query])
            /\ UNCHANGED http_response
       ELSE IF OwnerOf(session_id[1]) = u
         THEN /\ Len(chat_messages) < MaxMessages
              /\ chat_messages' =
                   Append(chat_messages, ChatMessage(u, session_id[1], "user", query))
              /\ chat' = Some([current_user |-> [id |-> u, role |-> users[u].role],
                               session_id |-> session_id[1], query |-> query])
              /\ UNCHANGED <<chat_sessions, http_response>>
         ELSE /\ Respond("chat", u, session_id[1], 403, OwnerOf(session_id[1]), {})
              /\ UNCHANGED <<chat_sessions, chat_messages, chat>>
  /\ UNCHANGED users
  /\ UNCHANGED engineVars

\* main.py:265: retrieve_and_generate is called with the query and the role
\* of the current user
ChatCall ==
  /\ chat # None
  /\ Request(chat[1].query, chat[1].current_user.role)

\* main.py:266-288: the engine returned and the bot message is committed, or
\* an exception left it: db.rollback() finds nothing to undo, the user
\* message having been committed at line 260, and the response is 500
ChatEnd ==
  /\ chat # None
  /\ pc \in {"done", "raised"}
  /\ IF pc = "done"
       THEN /\ chat_messages' =
                 Append(chat_messages,
                        ChatMessage(chat[1].current_user.id, chat[1].session_id,
                                    "bot", returned[1][1]))
            /\ Respond("chat", chat[1].current_user.id, chat[1].session_id, 200,
                       chat[1].current_user.id, {})
       ELSE /\ UNCHANGED chat_messages
            /\ Respond("chat", chat[1].current_user.id, chat[1].session_id, 500,
                       chat[1].current_user.id, {})
  /\ chat' = None
  /\ UNCHANGED <<users, chat_sessions>>
  /\ UNCHANGED engineVars

\* the coroutine of the finished call is gone
ChatReturn ==
  /\ chat = None
  /\ NextRequest

\* main.py:292-316
CreateChatSession(u, title) ==
  /\ u \in DOMAIN users
  /\ NextId(chat_sessions) <= MaxSessions
  /\ chat_sessions' = Insert(chat_sessions, [user_id |-> u, title |-> title])
  /\ Respond("create_chat_session", u, NextId(chat_sessions), 201, u, {u})
  /\ UNCHANGED <<users, chat_messages, chat>>
  /\ UNCHANGED engineVars

\* main.py:318-338
GetUserChatSessions(u) ==
  /\ u \in DOMAIN users
  /\ Respond("get_user_chat_sessions", u, 0, 200, 0,
             {chat_sessions[i].user_id :
                i \in {j \in DOMAIN chat_sessions : chat_sessions[j].user_id = u}})
  /\ UNCHANGED <<users, chat_sessions, chat_messages, chat>>
  /\ UNCHANGED engineVars

\* main.py:340-370: the messages are selected by session_id alone
GetSessionMessages(u, session_id) ==
  /\ u \in DOMAIN users
  /\ IF OwnerOf(session_id) = u
       THEN Respond("get_session_messages", u, session_id, 200, OwnerOf(session_id),
                    {chat_messages[i].user_id :
                       i \in {j \in 1..Len(chat_messages) :
                                chat_messages[j].session_id = session_id}})
       ELSE Respond("get_session_messages", u, session_id, 404, OwnerOf(session_id), {})
  /\ UNCHANGED <<users, chat_sessions, chat_messages, chat>>
  /\ UNCHANGED engineVars

\* main.py:372-400
UpdateChatSessionTitle(u, session_id, title) ==
  /\ u \in DOMAIN users
  /\ IF OwnerOf(session_id) = u
       THEN /\ chat_sessions' = [chat_sessions EXCEPT ![session_id].title = title]
            /\ Respond("update_chat_session_title", u, session_id, 200,
                       OwnerOf(session_id), {u})
       ELSE /\ Respond("update_chat_session_title", u, session_id, 404,
                       OwnerOf(session_id), {})
            /\ UNCHANGED chat_sessions
  /\ UNCHANGED <<users, chat_messages, chat>>
  /\ UNCHANGED engineVars

\* main.py:402-423 with the cascade of ChatSession.messages
DeleteChatSession(u, session_id) ==
  /\ u \in DOMAIN users
  /\ IF OwnerOf(session_id) = u
       THEN /\ chat_sessions' = Delete(chat_sessions, session_id)
            /\ chat_messages' =
                 SelectSeq(chat_messages, LAMBDA m : m.session_id # session_id)
            /\ Respond("delete_chat_session", u, session_id, 204, OwnerOf(session_id), {})
       ELSE /\ Respond("delete_chat_session", u, session_id, 404, OwnerOf(session_id), {})
            /\ UNCHANGED <<chat_sessions, chat_messages>>
  /\ UNCHANGED <<users, chat>>
  /\ UNCHANGED engineVars

NextChat ==
  \/ \E u \in ChatUsers, session_id \in {None} \cup {Some(i) : i \in SessionIds},
        query \in ChatQueries : ChatBegin(u, session_id, query)
  \/ ChatCall
  \/ EmbeddingReturns(TRUE)
  \/ \E index_raises \in BOOLEAN : GlobalQueryReturns(index_raises)
  \/ ScopedQueryReturns(FALSE)
  \/ LlmReturns(Some("generated answer"))
  \/ ChatEnd
  \/ ChatReturn
  \/ \E u \in ChatUsers : CreateChatSession(u, "New Chat")
  \/ \E u \in ChatUsers : GetUserChatSessions(u)
  \/ \E u \in ChatUsers, session_id \in SessionIds : GetSessionMessages(u, session_id)
  \/ \E u \in ChatUsers, session_id \in SessionIds, title \in SessionTitles :
        UpdateChatSessionTitle(u, session_id, title)
  \/ \E u \in ChatUsers, session_id \in SessionIds : DeleteChatSession(u, session_id)

SpecChat == InitChat /\ [][NextChat]_vars

\* the response answers a request that named a session of another user
C28_NamesForeignSession(r) == r.owner # 0 /\ r.owner # r.user

\* every stored message of an existing session was written by the owner of
\* that session; a response that names a session and succeeds was given to
\* the owner of the session; the messages and sessions in a body are the
\* current user's; a request naming another user's session gets 403 from
\* /chat and 404 from the other endpoints
C28_Isolated ==
  /\ \A i \in 1..Len(chat_messages) :
       chat_messages[i].session_id \in DOMAIN chat_sessions
         => chat_sessions[chat_messages[i].session_id].user_id = chat_messages[i].user_id
  /\ http_response # None =>
       /\ http_response[1].authors \subseteq {http_response[1].user}
       /\ C28_NamesForeignSession(http_response[1]) =>
            http_response[1].status = IF http_response[1].endpoint = "chat" THEN 403 ELSE 404

\* a step that answers a request naming another user's session leaves the
\* sessions and the messages as they were
C28_RejectedLeavesUnchanged ==
  (/\ http_response' # http_response
   /\ http_response' # None
   /\ C28_NamesForeignSession(http_response'[1]))
    => UNCHANGED <<chat_sessions, chat_messages>>

\* C28: chat-session isolation: after any sequence of /chat and chat-session
\* create, list, read-messages, rename and delete requests by several users,
\* a user adds messages to, reads, renames or deletes only a session whose
\* user_id is their own, and a request naming another user's session is
\* rejected (403 for /chat, 404 otherwise) and changes neither that session
\* nor its messages
C28_SessionIsolation == []C28_Isolated /\ [][C28_RejectedLeavesUnchanged]_vars

\* the number of stored messages of a session sent by the sender
C29_Count(session_id, sender) ==
  Cardinality({i \in 1..Len(chat_messages) :
                 /\ chat_messages[i].session_id = session_id
                 /\ chat_messages[i].sender = sender})

\* C29: a /chat request stores the user message and the bot reply together
\* or not at all: when no /chat request is in progress, whether the last one
\* returned a response or failed with 500 and rolled back, every session
\* holds as many bot replies as user messages, so no user message is stored
\* without its reply
C29_UserMessageAndReplyAtomic ==
  chat = None =>
    \A session_id \in SessionIds :
      C29_Count(session_id, "user") = C29_Count(session_id, "bot")

\* ------------------------------------------------------------------------
\* src/main.py: the admin endpoints over the user table
\* ------------------------------------------------------------------------

\* main.py:450-459 and 493-502: the departments the table names, and "all"
valid_departments(table) ==
  UNION {IF "department" \in DOMAIN table[r]
           THEN {table[r].department}
           ELSE IF "$or" \in DOMAIN table[r]
             THEN {table[r]["$or"][i].department : i \in 1..Len(table[r]["$or"])}
             ELSE {}
         : r \in DOMAIN table}
    \cup {"all"}

\* main.py:445 and 487
InvalidRole(role) == role \notin DOMAIN role_permissions /\ role # "Admin"

\* main.py:162: the id of the user of that name, 0 when there is none
UserByName(username) ==
  IF \E id \in DOMAIN users : users[id].username = username
    THEN CHOOSE id \in DOMAIN users : users[id].username = username
    ELSE 0

\* main.py:146-176: get_current_admin_user: 0 when the request goes on, else
\* the status it is refused with
AdminRefusal(token_username) ==
  IF UserByName(token_username) = 0 THEN 401
  ELSE IF users[UserByName(token_username)].role # "Admin" THEN 403
  ELSE 0

\* the response of an admin endpoint, with the user id and the role the
\* request named
RespondAdmin(endpoint, token_username, status, user_id, role) ==
  http_response' = Some([endpoint |-> endpoint, user |-> UserByName(token_username),
                         session_id |-> 0, status |-> status, owner |-> 0,
                         authors |-> {},
                         request |-> [user_id |-> user_id, role |-> role]])

\* the tokens the admin endpoints are called with
TokenUsers == {"admin", "finance_user"}

\* UserCreate.username
NewUsernames == {"finance_user", "intern"}

\* UserCreate.role
CreateRoles == {"Intern", "", "Marketing Team"}

\* UserCreate.department
RequestDepartments == {"marketing", "mars"}

\* UserUpdate.role
UpdateRoles == {Some(""), Some("Intern"), Some("Admin")}

\* UserUpdate.department
UpdateDepartments == {None, Some("marketing")}

\* the user ids the requests name: finance_user and the first user created
RequestUserIds == {2, Len(SeedUsers) + 1}

\* main.py:434-476
CreateUser(token_username, username, role, department) ==
  /\ IF AdminRefusal(token_username) # 0
       THEN /\ RespondAdmin("create_user", token_username, AdminRefusal(token_username),
                            0, Some(role))
            /\ UNCHANGED users
       ELSE IF UserByName(username) # 0 \/ InvalidRole(role)
                 \/ department \notin valid_departments(role_permissions)
         THEN /\ RespondAdmin("create_user", token_username, 400, 0, Some(role))
              /\ UNCHANGED users
         ELSE /\ users' = Insert(users, [username |-> username, role |-> role,
                                         department |-> department])
              /\ RespondAdmin("create_user", token_username, 201, NextId(users),
                              Some(role))
  /\ UNCHANGED <<chat_sessions, chat_messages, chat>>
  /\ UNCHANGED engineVars

\* the role of the request is stored as it comes
UpdateUser_NoRoleCheck(token_username, user_id, role, department) ==
  /\ IF AdminRefusal(token_username) # 0
       THEN /\ RespondAdmin("update_user", token_username, AdminRefusal(token_username),
                            user_id, role)
            /\ UNCHANGED users
       ELSE IF user_id \notin DOMAIN users
         THEN /\ RespondAdmin("update_user", token_username, 404, user_id, role)
              /\ UNCHANGED users
         ELSE IF /\ department # None /\ department[1] # ""
                 /\ department[1] \notin valid_departments(role_permissions)
           THEN /\ RespondAdmin("update_user", token_username, 400, user_id, role)
                /\ UNCHANGED users
           ELSE /\ users' =
                     [users EXCEPT
                        ![user_id].role =
                           IF role # None /\ role[1] # "" THEN role[1] ELSE @,
                        ![user_id].department =
                           IF department # None /\ department[1] # ""
                             THEN department[1] ELSE @]
                /\ RespondAdmin("update_user", token_username, 200, user_id, role)
  /\ UNCHANGED <<chat_sessions, chat_messages, chat>>
  /\ UNCHANGED engineVars

\* main.py:478-515: a role or a department that is None or "" is skipped;
\* what was assigned before a 400 is never committed
UpdateUser(token_username, user_id, role, department) ==
  /\ IF AdminRefusal(token_username) # 0
       THEN /\ RespondAdmin("update_user", token_username, AdminRefusal(token_username),
                            user_id, role)
            /\ UNCHANGED users
       ELSE IF user_id \notin DOMAIN users
         THEN /\ RespondAdmin("update_user", token_username, 404, user_id, role)
              /\ UNCHANGED users
         ELSE IF \/ /\ role # None /\ role[1] # ""
                    /\ InvalidRole(role[1])
                 \/ /\ department # None /\ department[1] # ""
                    /\ department[1] \notin valid_departments(role_permissions)
           THEN /\ RespondAdmin("update_user", token_username, 400, user_id, role)
                /\ UNCHANGED users
           ELSE /\ users' =
                     [users EXCEPT
                        ![user_id].role =
                           IF role # None /\ role[1] # "" THEN role[1] ELSE @,
                        ![user_id].department =
                           IF department # None /\ department[1] # ""
                             THEN department[1] ELSE @]
                /\ RespondAdmin("update_user", token_username, 200, user_id, role)
  /\ UNCHANGED <<chat_sessions, chat_messages, chat>>
  /\ UNCHANGED engineVars

\* main.py:517-532 with the cascades of User.chat_sessions and
\* ChatSession.messages
DeleteUser(token_username, user_id) ==
  /\ IF AdminRefusal(token_username) # 0
       THEN /\ RespondAdmin("delete_user", token_username, AdminRefusal(token_username),
                            user_id, None)
            /\ UNCHANGED <<users, chat_sessions, chat_messages>>
       ELSE IF user_id \notin DOMAIN users
         THEN /\ RespondAdmin("delete_user", token_username, 404, user_id, None)
              /\ UNCHANGED <<users, chat_sessions, chat_messages>>
         ELSE IF users[user_id].username = token_username
           THEN /\ RespondAdmin("delete_user", token_username, 400, user_id, None)
                /\ UNCHANGED <<users, chat_sessions, chat_messages>>
           ELSE /\ users' = Delete(users, user_id)
                /\ chat_sessions' =
                     [i \in {j \in DOMAIN chat_sessions : chat_sessions[j].user_id # user_id}
                        |-> chat_sessions[i]]
                /\ chat_messages' =
                     SelectSeq(chat_messages,
                               LAMBDA m : OwnerOf(m.session_id) # user_id)
                /\ RespondAdmin("delete_user", token_username, 204, user_id, None)
  /\ UNCHANGED chat
  /\ UNCHANGED engineVars

NextUsers ==
  \/ \E token_username \in TokenUsers, username \in NewUsernames, role \in CreateRoles,
        department \in RequestDepartments :
        CreateUser(token_username, username, role, department)
  \/ \E token_username \in TokenUsers, user_id \in RequestUserIds, role \in UpdateRoles,
        department \in UpdateDepartments :
        UpdateUser(token_username, user_id, role, department)
  \/ \E token_username \in TokenUsers, user_id \in RequestUserIds :
        DeleteUser(token_username, user_id)
  \/ \E u \in RequestUserIds, query \in ChatQueries : ChatBegin(u, None, query)
  \/ ChatCall
  \/ EmbeddingReturns(TRUE)
  \/ GlobalQueryReturns(FALSE)
  \/ ScopedQueryReturns(FALSE)
  \/ LlmReturns(Some("generated answer"))
  \/ ChatEnd
  \/ ChatReturn

SpecUsers == InitChat /\ [][NextUsers]_vars

\* the step answers a create-user or update-user request that passed the
\* admin check
C30_AnswersAdmin(endpoint) ==
  /\ http_response' # http_response
  /\ http_response' # None
  /\ http_response'[1].endpoint = endpoint
  /\ http_response'[1].status \notin {401, 403}

\* the request the step answers named a role that is no key of the table
C30_NamesInvalidRole ==
  /\ http_response'[1].request.role # None
  /\ http_response'[1].request.role[1] \notin DOMAIN role_permissions

\* every stored role is a key of the table, and so is the role of every
\* /chat call and of every call of the engine
C30_RolesKnown ==
  /\ \A id \in DOMAIN users : users[id].role \in DOMAIN role_permissions
  /\ chat # None => chat[1].current_user.role \in DOMAIN role_permissions
  /\ pc # "idle" => user_role \in DOMAIN role_permissions

\* a create or an update naming an invalid role is answered 400 and leaves
\* the user table as it was
C30_InvalidRoleGets400 ==
  (/\ C30_AnswersAdmin("create_user") \/ C30_AnswersAdmin("update_user")
   /\ C30_NamesInvalidRole)
    => /\ http_response'[1].status = 400
       /\ users' = users

\* C30 as stated: after seeding and any sequence of admin create-user,
\* update-user and delete-user requests every stored role is a key of
\* ROLE_PERMISSIONS and the engine is never called through /chat with an
\* unknown role, and a create or update naming an invalid role is rejected
\* with 400 and leaves the user table unchanged
C30_RolesValid_Original == []C30_RolesKnown /\ [][C30_InvalidRoleGets400]_vars

\* a create naming an invalid role, and an update of an existing user naming
\* a non-empty invalid role, are answered 400 and leave the user table as it
\* was; an update of a user that does not exist is answered 404 and changes
\* nothing; an update naming the empty role leaves every role as it was
C30_InvalidRoleNeverStored ==
  /\ (C30_AnswersAdmin("create_user") /\ C30_NamesInvalidRole)
       => /\ http_response'[1].status = 400
          /\ users' = users
  /\ (C30_AnswersAdmin("update_user") /\ C30_NamesInvalidRole)
       => IF http_response'[1].request.user_id \notin DOMAIN users
            THEN http_response'[1].status = 404 /\ users' = users
            ELSE IF http_response'[1].request.role[1] = ""
              THEN /\ http_response'[1].status \in {200, 400}
                   /\ DOMAIN users' = DOMAIN users
                   /\ \A id \in DOMAIN users : users'[id].role = users[id].role
              ELSE http_response'[1].status = 400 /\ users' = users

\* C30 (amended): after seeding and any sequence of admin create-user,
\* update-user and delete-user requests every stored role is a key of
\* ROLE_PERMISSIONS and the engine is never called through /chat with an
\* unknown role; a create naming an invalid role, or an update of an existing
\* user naming a non-empty invalid role, is rejected with 400 and leaves the
\* user table unchanged; an update of a missing user is answered 404, and an
\* update naming the empty role ignores the role
C30_RolesValid == []C30_RolesKnown /\ [][C30_InvalidRoleNeverStored]_vars

\* an update naming "Intern" was answered 400 while a created user is
\* stored, finance_user has been made an admin and a /chat call of the
\* created user is running in the engine
C30_Witness ==
  /\ http_response # None
  /\ http_response[1].endpoint = "update_user"
  /\ http_response[1].status = 400
  /\ http_response[1].request.role = Some("Intern")
  /\ UserByName("intern") # 0
  /\ 2 \in DOMAIN users /\ users[2].role = "Admin"
  /\ chat # None /\ chat[1].current_user.id = UserByName("intern")
  /\ pc = "scoped_query"

====
